---- MODULE Spec2Model ----
(***************************************************************************)
(* Scratch-card game: eligibility and record reconciliation (App,          *)
(* storageService, googleSheetService, the Apps Script ledger) and the     *)
(* scratch-reveal detector (ScratchCard).                                  *)
(*                                                                         *)
(* Time is counted in hours since an arbitrary origin; a calendar date is  *)
(* the number of the day an instant falls in.  Each browser is a session   *)
(* with its own localStorage; all sessions share the spreadsheet.          *)
(***************************************************************************)
EXTENDS Integers, Sequences, FiniteSets, TLC

VARIABLES
    now,                \* Date.now(), in hours
    sheet,              \* rows of the remote "game records" sheet, in sheet order
    posts,              \* save_record POSTs dispatched and not yet settled
    storage,            \* [session -> records under STORAGE_KEY in localStorage]
    prizeStore,         \* [session -> value under PRIZE_CONFIG_KEY in localStorage]
    adminConfig,        \* [session -> AdminConfig read by getAdminConfig]
    view,               \* App state: view
    username,           \* App state: username input
    agent,              \* App state: agent input
    currentUserRecord,  \* App state: currentUserRecord
    errorMsg,           \* App state: errorMsg
    showResultModal,    \* App state: showResultModal
    isVerifying,        \* App state: isVerifying
    clientIp,           \* App state: clientIp
    login,              \* [session -> the suspended handleLogin call, if any]
    timers,             \* [session -> pending setTimeout(setShowResultModal(true))]
    card,               \* [session -> the mounted ScratchCard's state]
    outcome,            \* [session -> how the last handleLogin resolved]
    lastFetch,          \* [session -> how its fetchRecordsFromSheet call ended]
    revealedLog,        \* records that handleReveal has marked scratched
    presented,          \* every record a session has shown or pushed
    prizeFetch,         \* [session -> the callers awaiting fetchPrizeConfig]
    adminPanel          \* [session -> AdminPanel state: isAuthenticated, localPrizes]

vars == <<now, sheet, posts, storage, prizeStore, adminConfig, view, username,
          agent, currentUserRecord, errorMsg, showResultModal, isVerifying,
          clientIp, login, timers, card, outcome, lastFetch, revealedLog,
          presented, prizeFetch, adminPanel>>

----------------------------------------------------------------------------
(* Bounds and constants *)

MaxTimers == 1          \* pending modal timers are counted up to this many
CanvasWidth == 5        \* the scratch surface is a strip of this many pixels

EIGHT_HOURS_MS == 8     \* 8 * 60 * 60 * 1000 ms, in hours
RevealThreshold == 40   \* percent
ScratchRadius == 1      \* the radius-20 disk, in model pixels

Sessions == {1, 2}
Instants == {1, 18, 25} \* the instants the clock is read at
InputNames == {"Alice", "alice"}
LoginInputs == {<<"Alice", "07">>, <<"alice", "07">>, <<"", "07">>, <<"alice", "">>}
Addresses == {"", "10.0.0.1"}

NULL == [null |-> TRUE]

----------------------------------------------------------------------------
(* Strings: String.prototype.toLowerCase and trim on the names in use *)

\* Names compared as they are written
toLowerCaseAsIs(str) == str

toLowerCase(str) ==
    CASE str = "Alice" -> "alice"
      [] str = " Bob " -> " bob "
      [] str = "Bob"   -> "bob"
      [] OTHER         -> str

trim(str) ==
    CASE str = " Bob " -> "Bob"
      [] str = " bob " -> "bob"
      [] str = " "     -> ""
      [] OTHER         -> str

(* getTodayString: the local calendar date of the current instant *)
DateOf(t) == t \div 24

getTodayString == DateOf(now)

----------------------------------------------------------------------------
(* Array helpers *)

\* Array.prototype.find: the element at the first of the indices hits (the
\* indices whose element passes the test), or NULL
find(arr, hits) ==
    IF hits = {} THEN NULL
    ELSE arr[CHOOSE i \in hits : \A j \in hits : i <= j]

Range(arr) == {arr[i] : i \in 1..Len(arr)}

----------------------------------------------------------------------------
(* storageService: game records *)

UserRecord(u, a, p, d, t, s, c, i) ==
    [username |-> u, agent |-> a, prize |-> p, date |-> d, timestamp |-> t,
     isScratched |-> s, isClaimed |-> c, ip |-> i]

\* What localStorage holds under a key: nothing, or a text that is
\* unparsable, or JSON that is no array, or a JSON array.
Stored(items) == [raw |-> "array", items |-> items]
Absent == [raw |-> "absent", items |-> <<>>]
Unparsable == [raw |-> "unparsable", items |-> <<>>]
NotArray == [raw |-> "nonArray", items |-> <<>>]

\* loadAllRecords: [] when the key is absent or JSON.parse throws, otherwise
\* whatever was parsed; what was parsed from NotArray is no list, see
\* NotIterable
loadAllRecords(raw) ==
    IF raw.raw = "array" THEN raw.items ELSE <<>>

\* The value loadAllRecords returns has no filter or find: saveRecord and
\* getRecord throw a TypeError on it
NotIterable(raw) == raw.raw = "nonArray"

SameUserAndDate(r, record) ==
    /\ toLowerCase(r.username) = toLowerCase(record.username)
    /\ r.date = record.date

\* saveRecord without the filter: the old record of the pair stays
saveRecordKeepingOld(raw, record) ==
    Stored(Append(loadAllRecords(raw), record))

saveRecord(raw, record) ==
    LET data == loadAllRecords(raw)
        NotSame(r) == ~SameUserAndDate(r, record)
        filtered == SelectSeq(data, NotSame)
    IN  Stored(Append(filtered, record))

\* getRecord with the 8-hour rule applied to today's record as well
getRecordExpiring(raw, user, today, t) ==
    LET data == loadAllRecords(raw)
        lowerUser == toLowerCase(user)
        IsUser(r) == toLowerCase(r.username) = lowerUser
        anyRecord == find(data, {i \in 1..Len(data) : IsUser(data[i])})
    IN  IF anyRecord = NULL THEN NULL
        ELSE IF t - anyRecord.timestamp > EIGHT_HOURS_MS THEN NULL
        ELSE IF anyRecord.date # today THEN NULL
        ELSE anyRecord

\* getRecord without the daily reset check of its second step
getRecordNoDailyReset(raw, user, today, t) ==
    LET data == loadAllRecords(raw)
        lowerUser == toLowerCase(user)
        IsToday(r) == toLowerCase(r.username) = lowerUser /\ r.date = today
        IsUser(r) == toLowerCase(r.username) = lowerUser
        todayRecord == find(data, {i \in 1..Len(data) : IsToday(data[i])})
        anyRecord == find(data, {i \in 1..Len(data) : IsUser(data[i])})
    IN  IF todayRecord # NULL THEN todayRecord
        ELSE IF anyRecord = NULL THEN NULL
        ELSE IF t - anyRecord.timestamp > EIGHT_HOURS_MS THEN NULL
        ELSE anyRecord

getRecord(raw, user, today, t) ==
    LET data == loadAllRecords(raw)
        lowerUser == toLowerCase(user)
        IsToday(r) == toLowerCase(r.username) = lowerUser /\ r.date = today
        IsUser(r) == toLowerCase(r.username) = lowerUser
        todayRecord == find(data, {i \in 1..Len(data) : IsToday(data[i])})
        anyRecord == find(data, {i \in 1..Len(data) : IsUser(data[i])})
    IN  IF todayRecord # NULL THEN todayRecord
        ELSE IF anyRecord = NULL THEN NULL
        ELSE IF t - anyRecord.timestamp > EIGHT_HOURS_MS THEN NULL
        ELSE IF anyRecord.date # today THEN NULL
        ELSE anyRecord

----------------------------------------------------------------------------
(* storageService: admin config and prize catalog *)

SheetUrl == "https://script.google.com/macros/s/x/exec"

DefaultConfig == [googleSheetUrl |-> SheetUrl, isEnabled |-> TRUE]

ConfigUrls == {SheetUrl, "", "not a url"}

DefaultPrizes == <<38, 58, 88>>

\* JSON values of a stored or fetched catalog
JNumber(n) == [json |-> "number", num |-> n]
JString(str) == [json |-> "string", str |-> str]

\* NaN is carried as a number no catalog entry takes
NaN == 0 - 1000000

isNaN(n) == n = NaN

\* Number(x): a number is itself, a numeric string its value, "" is 0,
\* any other text NaN
Number(x) ==
    IF x.json = "number" THEN x.num
    ELSE CASE x.str = "58" -> 58
           [] x.str = "0"  -> 0
           [] x.str = ""   -> 0
           [] OTHER        -> NaN

NotNaN(n) == ~isNaN(n)

MapNumber(arr) == [i \in 1..Len(arr) |-> Number(arr[i])]

getPrizeConfig(raw) ==
    IF raw.raw = "absent" THEN DefaultPrizes
    ELSE IF raw.raw = "array" THEN SelectSeq(MapNumber(raw.items), NotNaN)
    ELSE DefaultPrizes

----------------------------------------------------------------------------
(* The ledger: the Apps Script behind the sheet URL *)

\* JSON.stringify of a number: NaN leaves the script as null, which is
\* carried as a number no prize takes
JNull == 0 - 2000000

stringifyNumber(n) == IF isNaN(n) THEN JNull ELSE n

\* The cell the sheet keeps for a posted prize
PrizeCell(prize) == JNumber(prize)

\* A row of the game-records sheet: the cells doPost writes
Row(u, a, p, d, t, sStr, cStr, i) ==
    [username |-> u, agent |-> a, prize |-> p, date |-> d, timestamp |-> t,
     sStr |-> sStr, cStr |-> cStr, ip |-> i]

YesNo(flag) == IF flag = "true" THEN "yes" ELSE "no"

\* doPost, action save_record: update the first row with this username and
\* date, or append a row
doPost(rows, p) ==
    LET Hit(i) == rows[i].username = p.username /\ rows[i].date = p.date
        sStr == YesNo(p.isScratched)
        cStr == YesNo(p.isClaimed)
    IN  IF \E i \in 1..Len(rows) : Hit(i)
        THEN LET k == CHOOSE i \in 1..Len(rows) :
                        Hit(i) /\ \A j \in 1..(i - 1) : ~Hit(j)
             IN  [rows EXCEPT ![k] =
                    [@ EXCEPT !.prize = PrizeCell(p.prize),
                              !.timestamp = p.timestamp,
                              !.sStr = sStr,
                              !.cStr = cStr,
                              !.ip = IF p.ip # "" THEN p.ip ELSE @]]
        ELSE Append(rows, Row(p.username, p.agent, PrizeCell(p.prize), p.date,
                              p.timestamp, sStr, cStr, p.ip))

\* The row read with the flag of the form, not the cell of the sheet
RowRecordFormFlag(row) ==
    UserRecord(row.username, row.agent, stringifyNumber(Number(row.prize)),
               row.date, row.timestamp,
               row.sStr = "true", row.cStr = "true", row.ip)

\* doGet, type records: every row with a username, as a record; the prize
\* is Number(cell) as JSON carries it
RowRecord(row) ==
    UserRecord(row.username, row.agent, stringifyNumber(Number(row.prize)),
               row.date, row.timestamp,
               row.sStr = "yes", row.cStr = "yes", row.ip)

HasUsername(row) == row.username # ""

doGet(rows) ==
    LET kept == SelectSeq(rows, HasUsername)
    IN  [i \in 1..Len(kept) |-> RowRecord(kept[i])]

----------------------------------------------------------------------------
(* googleSheetService *)

BoolString(b) == IF b THEN "true" ELSE "false"

\* The form syncToGoogleSheet posts for a record at instant t
FormData(record, t) ==
    [username |-> record.username,
     agent |-> record.agent,
     prize |-> IF record.prize = JNull THEN 0 ELSE record.prize,
     date |-> record.date,
     timestamp |-> IF record.timestamp # 0 THEN record.timestamp ELSE t,
     isScratched |-> BoolString(record.isScratched),
     isClaimed |-> BoolString(record.isClaimed),
     ip |-> record.ip]

SyncConfigured(config) == config.isEnabled /\ config.googleSheetUrl # ""

\* syncToGoogleSheet: the POSTs it dispatches (none when sync is off)
syncToGoogleSheet(config, record, t) ==
    IF ~SyncConfigured(config) THEN {} ELSE {FormData(record, t)}

\* What the network and the ledger answer to the GET of fetchRecordsFromSheet
ResponseKinds == {"array", "networkError", "notOk", "badJson", "nonArray"}

Thrown == [threw |-> TRUE, records |-> <<>>]
Returned(records) == [threw |-> FALSE, records |-> records]

\* The GET was sent and answered with the ledger's rows
LedgerRead(config, kind) ==
    /\ SyncConfigured(config)
    /\ config.googleSheetUrl = SheetUrl
    /\ kind = "array"

\* fetchRecordsFromSheet under config, when the exchange ends as kind and
\* the ledger holds rows
fetchRecordsFromSheet(config, kind, rows) ==
    IF ~SyncConfigured(config) THEN Returned(<<>>)
    ELSE IF trim(config.googleSheetUrl) = "" THEN Returned(<<>>)
    ELSE IF config.googleSheetUrl = "not a url" THEN Thrown
    ELSE IF kind \in {"networkError", "notOk", "badJson"} THEN Thrown
    ELSE IF kind = "array" THEN Returned(doGet(rows))
    ELSE Returned(<<>>)

----------------------------------------------------------------------------
(* ScratchCard *)

Pixels == 0..(CanvasWidth - 1)

\* The pixels the arc of handleScratch makes transparent around x
Disk(x) == {px \in Pixels : (px - x) * (px - x) <= ScratchRadius * ScratchRadius}

\* The pixels on the rim of that arc, which an anti-aliasing rasteriser may
\* cover in part
Fringe(x) ==
    {px \in Pixels : (px - x) * (px - x) = (ScratchRadius + 1) * (ScratchRadius + 1)}

\* calculateRevealPercentage: the transparent pixels over all pixels, times
\* 100, kept as a fraction
calculateRevealPercentage(clear) ==
    [num |-> Cardinality(clear) * 100, den |-> Cardinality(Pixels)]

\* percent > 40 with the threshold taken inclusively
OverThresholdInclusive(clear) ==
    LET percent == calculateRevealPercentage(clear)
    IN  percent.num >= RevealThreshold * percent.den

\* percent > 40
OverThreshold(clear) ==
    LET percent == calculateRevealPercentage(clear)
    IN  percent.num > RevealThreshold * percent.den

Unmounted ==
    [mounted |-> FALSE, revealed |-> FALSE, isScratching |-> FALSE, clear |-> {},
     faded |-> {}]

\* A card that mounts covered whatever isRevealedInitial says
MountedCovered(isRevealedInitial) ==
    [mounted |-> TRUE, revealed |-> FALSE, isScratching |-> FALSE, clear |-> {},
     faded |-> {}]

\* useState(isRevealedInitial) and the canvas effect
Mounted(isRevealedInitial) ==
    [mounted |-> TRUE, revealed |-> isRevealedInitial, isScratching |-> FALSE,
     clear |-> IF isRevealedInitial THEN Pixels ELSE {}, faded |-> {}]

----------------------------------------------------------------------------
(* App *)

Idle == [pc |-> "idle", user |-> "", agent |-> "", today |-> 0]

NoOutcome == [kind |-> "none", via |-> "none"]

NoFetch == [read |-> FALSE, result |-> "none"]

\* How a fetchRecordsFromSheet call ended: thrown, or the rows it returned
FetchResult(fetched) ==
    IF fetched.threw THEN "threw"
    ELSE IF Len(fetched.records) = 0 THEN "empty" ELSE "rows"

Identity(record) ==
    [username |-> toLowerCase(trim(record.username)), date |-> record.date]

Shown(record) ==
    [username |-> toLowerCase(trim(record.username)), date |-> record.date,
     prize |-> record.prize]

AddTimer(n) == IF n < MaxTimers THEN n + 1 ELSE MaxTimers

\* The AdminPanel as it mounts: nobody signed in, an empty draft
PanelClosed == [isAuthenticated |-> FALSE, localPrizes |-> <<>>]

\* The application freshly loaded in every browser, against a ledger holding
\* rows and with cache and catalog as what browser 1 has stored
Start(rows, cache, catalog) ==
    /\ now = 1
    /\ sheet = rows
    /\ posts = {}
    /\ storage = [s \in Sessions |-> IF s = 1 THEN cache ELSE Absent]
    /\ prizeStore = [s \in Sessions |-> IF s = 1 THEN catalog ELSE Absent]
    /\ adminConfig = [s \in Sessions |-> DefaultConfig]
    /\ view = [s \in Sessions |-> "LOGIN"]
    /\ username = [s \in Sessions |-> ""]
    /\ agent = [s \in Sessions |-> ""]
    /\ currentUserRecord = [s \in Sessions |-> NULL]
    /\ errorMsg = [s \in Sessions |-> ""]
    /\ showResultModal = [s \in Sessions |-> FALSE]
    /\ isVerifying = [s \in Sessions |-> FALSE]
    /\ clientIp = [s \in Sessions |-> ""]
    /\ login = [s \in Sessions |-> Idle]
    /\ timers = [s \in Sessions |-> 0]
    /\ card = [s \in Sessions |-> Unmounted]
    /\ outcome = [s \in Sessions |-> NoOutcome]
    /\ lastFetch = [s \in Sessions |-> NoFetch]
    /\ revealedLog = {}
    /\ presented = {}
    /\ prizeFetch = [s \in Sessions |-> {"startup"}]
    /\ adminPanel = [s \in Sessions |-> PanelClosed]

Init == Start(<<>>, Absent, Absent)

\* handleLogin submitted with the button enabled while a login is pending
HandleLoginWhileVerifying(s, u, a) ==
    /\ view[s] = "LOGIN"
    /\ username' = [username EXCEPT ![s] = u]
    /\ agent' = [agent EXCEPT ![s] = a]
    /\ IF trim(u) = "" \/ trim(a) = ""
       THEN /\ errorMsg' = [errorMsg EXCEPT ![s] = "missing"]
            /\ UNCHANGED <<isVerifying, login>>
       ELSE /\ errorMsg' = [errorMsg EXCEPT ![s] = ""]
            /\ isVerifying' = [isVerifying EXCEPT ![s] = TRUE]
            /\ login' = [login EXCEPT ![s] =
                            [pc |-> "ip", user |-> trim(u),
                             agent |-> "HG" \o trim(a), today |-> getTodayString]]
    /\ UNCHANGED <<now, sheet, posts, storage, prizeStore, adminConfig, view,
                   currentUserRecord, showResultModal, clientIp, timers, card,
                   outcome, lastFetch, revealedLog, presented>>
    /\ UNCHANGED <<prizeFetch, adminPanel>>

\* A handleLogin that starts verifying whatever was typed
HandleLoginUnvalidated(s, u, a) ==
    /\ view[s] = "LOGIN"
    /\ ~isVerifying[s]
    /\ username' = [username EXCEPT ![s] = u]
    /\ agent' = [agent EXCEPT ![s] = a]
    /\ errorMsg' = [errorMsg EXCEPT ![s] = ""]
    /\ isVerifying' = [isVerifying EXCEPT ![s] = TRUE]
    /\ login' = [login EXCEPT ![s] =
                    [pc |-> "ip", user |-> trim(u),
                     agent |-> "HG" \o trim(a), today |-> getTodayString]]
    /\ UNCHANGED <<now, sheet, posts, storage, prizeStore, adminConfig, view,
                   currentUserRecord, showResultModal, clientIp, timers, card,
                   outcome, lastFetch, revealedLog, presented>>
    /\ UNCHANGED <<prizeFetch, adminPanel>>

\* handleLogin up to its first await: validation, setIsVerifying(true)
HandleLogin(s, u, a) ==
    /\ view[s] = "LOGIN"
    /\ ~isVerifying[s]
    /\ username' = [username EXCEPT ![s] = u]
    /\ agent' = [agent EXCEPT ![s] = a]
    /\ IF trim(u) = "" \/ trim(a) = ""
       THEN /\ errorMsg' = [errorMsg EXCEPT ![s] = "missing"]
            /\ UNCHANGED <<isVerifying, login>>
       ELSE /\ errorMsg' = [errorMsg EXCEPT ![s] = ""]
            /\ isVerifying' = [isVerifying EXCEPT ![s] = TRUE]
            /\ login' = [login EXCEPT ![s] =
                            [pc |-> "ip", user |-> trim(u),
                             agent |-> "HG" \o trim(a), today |-> getTodayString]]
    /\ UNCHANGED <<now, sheet, posts, storage, prizeStore, adminConfig, view,
                   currentUserRecord, showResultModal, clientIp, timers, card,
                   outcome, lastFetch, revealedLog, presented>>
    /\ UNCHANGED <<prizeFetch, adminPanel>>

\* getClientIp settles (with '' when it fails); the fetch is issued
LoginClientIp(s, ip) ==
    /\ login[s].pc = "ip"
    /\ clientIp' = [clientIp EXCEPT ![s] = ip]
    /\ login' = [login EXCEPT ![s].pc = "fetch"]
    /\ UNCHANGED <<now, sheet, posts, storage, prizeStore, adminConfig, view,
                   username, agent, currentUserRecord, errorMsg,
                   showResultModal, isVerifying, timers, card, outcome, lastFetch,
                   revealedLog, presented>>
    /\ UNCHANGED <<prizeFetch, adminPanel>>

\* The branches of handleLogin that present an existing record
ShowExisting(s, record, via) ==
    /\ currentUserRecord' = [currentUserRecord EXCEPT ![s] = record]
    /\ view' = [view EXCEPT ![s] = "GAME"]
    /\ card' = [card EXCEPT ![s] = Mounted(record.isScratched)]
    /\ errorMsg' = [errorMsg EXCEPT ![s] =
                        IF record.isScratched THEN "exhausted" ELSE @]
    /\ timers' = [timers EXCEPT ![s] =
                        IF record.isScratched THEN AddTimer(@) ELSE @]
    /\ isVerifying' = [isVerifying EXCEPT ![s] = FALSE]
    /\ login' = [login EXCEPT ![s] = Idle]
    /\ outcome' = [outcome EXCEPT ![s] =
                        [kind |-> IF record.isScratched THEN "Blocked" ELSE "Resume",
                         via |-> via]]
    /\ presented' = presented \cup {Shown(record)}

\* startNewGame without the saveRecord call
startNewGameUnsaved(s, user, agentCode, ip, prize, via) ==
    LET newRecord == UserRecord(user, agentCode, prize, getTodayString, now,
                                FALSE, FALSE, ip)
    IN  /\ UNCHANGED storage
        /\ currentUserRecord' = [currentUserRecord EXCEPT ![s] = newRecord]
        /\ view' = [view EXCEPT ![s] = "GAME"]
        /\ card' = [card EXCEPT ![s] = Mounted(FALSE)]
        /\ errorMsg' = [errorMsg EXCEPT ![s] = ""]
        /\ isVerifying' = [isVerifying EXCEPT ![s] = FALSE]
        /\ login' = [login EXCEPT ![s] = Idle]
        /\ outcome' = [outcome EXCEPT ![s] = [kind |-> "Fresh", via |-> via]]
        /\ presented' = presented \cup {Shown(newRecord)}
        /\ UNCHANGED timers

\* startNewGame with the prize Math.random picked
startNewGame(s, user, agentCode, ip, prize, via) ==
    LET newRecord == UserRecord(user, agentCode, prize, getTodayString, now,
                                FALSE, FALSE, ip)
    IN  /\ storage' = [storage EXCEPT ![s] = saveRecord(@, newRecord)]
        /\ currentUserRecord' = [currentUserRecord EXCEPT ![s] = newRecord]
        /\ view' = [view EXCEPT ![s] = "GAME"]
        /\ card' = [card EXCEPT ![s] = Mounted(FALSE)]
        /\ errorMsg' = [errorMsg EXCEPT ![s] = ""]
        /\ isVerifying' = [isVerifying EXCEPT ![s] = FALSE]
        /\ login' = [login EXCEPT ![s] = Idle]
        /\ outcome' = [outcome EXCEPT ![s] = [kind |-> "Fresh", via |-> via]]
        /\ presented' = presented \cup {Shown(newRecord)}
        /\ UNCHANGED timers

\* The draw of startNewGame without its fallback: indexing an empty catalog
\* gives no number
PrizeChoicesNoFallback(raw) ==
    LET availablePrizes == getPrizeConfig(raw)
    IN  IF Len(availablePrizes) > 0 THEN Range(availablePrizes) ELSE {NaN}

\* The prizes startNewGame can draw
PrizeChoices(raw) ==
    LET availablePrizes == getPrizeConfig(raw)
    IN  IF Len(availablePrizes) > 0 THEN Range(availablePrizes) ELSE {38}

\* The cloud match without the trim
CloudRecordUntrimmed(cloudRecords, trimmedUser, today) ==
    LET Match(r) == /\ r.username # ""
                    /\ toLowerCase(r.username) = toLowerCase(trimmedUser)
                    /\ r.date = today
    IN  find(cloudRecords, {i \in 1..Len(cloudRecords) : Match(cloudRecords[i])})

\* cloudRecords.find(...) of handleLogin
CloudRecord(cloudRecords, trimmedUser, today) ==
    LET Match(r) == /\ r.username # ""
                    /\ toLowerCase(trim(r.username)) = toLowerCase(trimmedUser)
                    /\ r.date = today
    IN  find(cloudRecords, {i \in 1..Len(cloudRecords) : Match(cloudRecords[i])})

\* The local check with the 8-hour rule applied to the record found
LocalRecordWithinEightHours(raw, trimmedUser, today, t) ==
    LET localRecord == getRecord(raw, trimmedUser, DateOf(t), t)
    IN  IF /\ localRecord # NULL
           /\ localRecord.date = today
           /\ t - localRecord.timestamp <= EIGHT_HOURS_MS
        THEN localRecord ELSE NULL

\* The local check of handleLogin: getRecord(...) && record.date === today
LocalRecord(raw, trimmedUser, today, t) ==
    LET localRecord == getRecord(raw, trimmedUser, DateOf(t), t)
    IN  IF localRecord # NULL /\ localRecord.date = today
        THEN localRecord ELSE NULL

\* ipRecord of handleLogin: the first scratched row of today written from ip
IpRecord(cloudRecords, ip, today) ==
    LET Hit(r) == r.ip = ip /\ r.date = today /\ r.isScratched
    IN  find(cloudRecords, {i \in 1..Len(cloudRecords) : Hit(cloudRecords[i])})

\* The condition of the IP check of handleLogin, whose body is empty: the
\* address has played today under another username
IpDuplicate(cloudRecords, ip, trimmedUser, today) ==
    /\ ip # ""
    /\ IpRecord(cloudRecords, ip, today) # NULL
    /\ toLowerCase(trim(IpRecord(cloudRecords, ip, today).username))
          # toLowerCase(trimmedUser)

\* handleLogin with the IP check blocking: the login ends on the row of the
\* other username
LoginFetchIpStrict(s, kind) ==
    /\ login[s].pc = "fetch"
    /\ LET fetched == fetchRecordsFromSheet(adminConfig[s], kind, sheet)
           trimmedUser == login[s].user
           today == login[s].today
           cloudRecord == CloudRecord(fetched.records, trimmedUser, today)
           localRecord == LocalRecord(storage[s], trimmedUser, today, now)
       IN  IF /\ ~fetched.threw
              /\ IpDuplicate(fetched.records, clientIp[s], trimmedUser, today)
           THEN /\ ShowExisting(s, IpRecord(fetched.records, clientIp[s], today),
                                "cloud")
                /\ UNCHANGED storage
           ELSE IF ~fetched.threw /\ cloudRecord # NULL
           THEN /\ storage' = [storage EXCEPT ![s] = saveRecord(@, cloudRecord)]
                /\ ShowExisting(s, cloudRecord, "cloud")
           ELSE IF localRecord # NULL
           THEN /\ ShowExisting(s, localRecord,
                                IF fetched.threw THEN "catch" ELSE "local")
                /\ UNCHANGED storage
           ELSE IF ~fetched.threw
           THEN /\ \E prize \in PrizeChoices(prizeStore[s]) :
                      startNewGame(s, trimmedUser, login[s].agent, clientIp[s],
                                   prize, "local")
           ELSE /\ login' = [login EXCEPT ![s].pc = "ip2"]
                /\ UNCHANGED <<storage, currentUserRecord, view, card, errorMsg,
                               timers, isVerifying, outcome, presented>>
    /\ lastFetch' = [lastFetch EXCEPT ![s] =
          [read |-> LedgerRead(adminConfig[s], kind),
           result |-> FetchResult(fetchRecordsFromSheet(adminConfig[s], kind, sheet))]]
    /\ UNCHANGED <<now, sheet, posts, prizeStore, adminConfig, username, agent,
                   showResultModal, clientIp, revealedLog>>
    /\ UNCHANGED <<prizeFetch, adminPanel>>

\* saveRecord or getRecord throws in the try block of handleLogin, getRecord
\* throws again in the catch block: the call rejects after the finally block
LoginThrows(s) ==
    /\ login' = [login EXCEPT ![s] = Idle]
    /\ isVerifying' = [isVerifying EXCEPT ![s] = FALSE]
    /\ outcome' = [outcome EXCEPT ![s] = [kind |-> "Rejected", via |-> "catch"]]
    /\ UNCHANGED <<storage, currentUserRecord, view, card, errorMsg, timers,
                   presented>>
    /\ UNCHANGED <<prizeFetch, adminPanel>>

\* handleLogin from the settling of fetchRecordsFromSheet on: the cloud
\* check, the local check, a new game; or the catch branch
LoginFetch(s, kind) ==
    /\ login[s].pc = "fetch"
    /\ LET fetched == fetchRecordsFromSheet(adminConfig[s], kind, sheet)
           trimmedUser == login[s].user
           today == login[s].today
           cloudRecord == CloudRecord(fetched.records, trimmedUser, today)
           localRecord == LocalRecord(storage[s], trimmedUser, today, now)
       IN  IF NotIterable(storage[s])
           THEN LoginThrows(s)
           ELSE IF ~fetched.threw /\ cloudRecord # NULL
           THEN /\ storage' = [storage EXCEPT ![s] = saveRecord(@, cloudRecord)]
                /\ ShowExisting(s, cloudRecord, "cloud")
           ELSE IF localRecord # NULL
           THEN /\ ShowExisting(s, localRecord,
                                IF fetched.threw THEN "catch" ELSE "local")
                /\ UNCHANGED storage
           ELSE IF ~fetched.threw
           THEN /\ \E prize \in PrizeChoices(prizeStore[s]) :
                      startNewGame(s, trimmedUser, login[s].agent, clientIp[s],
                                   prize, "local")
           ELSE /\ login' = [login EXCEPT ![s].pc = "ip2"]
                /\ UNCHANGED <<storage, currentUserRecord, view, card, errorMsg,
                               timers, isVerifying, outcome, presented>>
    /\ lastFetch' = [lastFetch EXCEPT ![s] =
          [read |-> LedgerRead(adminConfig[s], kind),
           result |-> FetchResult(fetchRecordsFromSheet(adminConfig[s], kind, sheet))]]
    /\ UNCHANGED <<now, sheet, posts, prizeStore, adminConfig, username, agent,
                   showResultModal, clientIp, revealedLog>>
    /\ UNCHANGED <<prizeFetch, adminPanel>>

\* The fail-open path with the new record also pushed to the sheet
LoginFallbackIpPushing(s, fallbackIp) ==
    /\ login[s].pc = "ip2"
    /\ \E prize \in PrizeChoices(prizeStore[s]) :
          /\ startNewGame(s, login[s].user, login[s].agent, fallbackIp, prize,
                          "catch")
          /\ posts' = posts \cup
                syncToGoogleSheet(adminConfig[s],
                    UserRecord(login[s].user, login[s].agent, prize,
                               getTodayString, now, FALSE, FALSE, fallbackIp),
                    now)
    /\ UNCHANGED <<now, sheet, prizeStore, adminConfig, username, agent,
                   showResultModal, clientIp, lastFetch, revealedLog>>
    /\ UNCHANGED <<prizeFetch, adminPanel>>

\* The catch branch failing closed: the login ends at the login screen
LoginFallbackIpGivingUp(s, fallbackIp) ==
    /\ login[s].pc = "ip2"
    /\ login' = [login EXCEPT ![s] = Idle]
    /\ isVerifying' = [isVerifying EXCEPT ![s] = FALSE]
    /\ errorMsg' = [errorMsg EXCEPT ![s] = "unavailable"]
    /\ UNCHANGED <<now, sheet, posts, storage, prizeStore, adminConfig, view,
                   username, agent, currentUserRecord, showResultModal,
                   clientIp, timers, card, outcome, lastFetch, revealedLog,
                   presented>>
    /\ UNCHANGED <<prizeFetch, adminPanel>>

\* The catch branch after its own getClientIp: a new game (fail-open)
LoginFallbackIp(s, fallbackIp) ==
    /\ login[s].pc = "ip2"
    /\ \E prize \in PrizeChoices(prizeStore[s]) :
          startNewGame(s, login[s].user, login[s].agent, fallbackIp, prize,
                       "catch")
    /\ UNCHANGED <<now, sheet, posts, prizeStore, adminConfig, username, agent,
                   showResultModal, clientIp, lastFetch, revealedLog>>
    /\ UNCHANGED <<prizeFetch, adminPanel>>

\* A handleReveal that keeps the scratched record in memory only
handleRevealUnsaved(s) ==
    IF currentUserRecord[s] = NULL
    THEN UNCHANGED <<currentUserRecord, storage, posts, timers, revealedLog,
                     presented>>
    ELSE LET updated == [currentUserRecord[s] EXCEPT !.isScratched = TRUE]
         IN  /\ currentUserRecord' = [currentUserRecord EXCEPT ![s] = updated]
             /\ storage' = storage
             /\ posts' = posts \cup syncToGoogleSheet(adminConfig[s], updated, now)
             /\ timers' = [timers EXCEPT ![s] = AddTimer(@)]
             /\ revealedLog' = revealedLog \cup {Shown(updated)}
             /\ presented' = presented \cup {Shown(updated)}

\* A handleReveal that also marks the record claimed
handleRevealClaiming(s) ==
    IF currentUserRecord[s] = NULL
    THEN UNCHANGED <<currentUserRecord, storage, posts, timers, revealedLog,
                     presented>>
    ELSE LET updated == [currentUserRecord[s] EXCEPT !.isScratched = TRUE,
                                                     !.isClaimed = TRUE]
         IN  /\ currentUserRecord' = [currentUserRecord EXCEPT ![s] = updated]
             /\ storage' = [storage EXCEPT ![s] = saveRecord(@, updated)]
             /\ posts' = posts \cup syncToGoogleSheet(adminConfig[s], updated, now)
             /\ timers' = [timers EXCEPT ![s] = AddTimer(@)]
             /\ revealedLog' = revealedLog \cup {Shown(updated)}
             /\ presented' = presented \cup {Shown(updated)}

\* handleReveal: mark scratched, save locally, dispatch the push, arm the timer
handleReveal(s) ==
    IF currentUserRecord[s] = NULL
    THEN UNCHANGED <<currentUserRecord, storage, posts, timers, revealedLog,
                     presented>>
    ELSE LET updated == [currentUserRecord[s] EXCEPT !.isScratched = TRUE]
         IN  /\ currentUserRecord' = [currentUserRecord EXCEPT ![s] = updated]
             /\ storage' = [storage EXCEPT ![s] = saveRecord(@, updated)]
             /\ posts' = posts \cup syncToGoogleSheet(adminConfig[s], updated, now)
             /\ timers' = [timers EXCEPT ![s] = AddTimer(@)]
             /\ revealedLog' = revealedLog \cup {Shown(updated)}
             /\ presented' = presented \cup {Shown(updated)}

\* onMouseDown / onTouchStart
StartScratching(s) ==
    /\ card[s].mounted
    /\ ~card[s].isScratching
    /\ card' = [card EXCEPT ![s].isScratching = TRUE]
    /\ UNCHANGED <<now, sheet, posts, storage, prizeStore, adminConfig, view,
                   username, agent, currentUserRecord, errorMsg,
                   showResultModal, isVerifying, clientIp, login, timers,
                   outcome, lastFetch, revealedLog, presented>>
    /\ UNCHANGED <<prizeFetch, adminPanel>>

\* A handleScratch that composites with xor instead of destination-out
handleScratchXor(c, x, edge) ==
    IF c.revealed THEN c
    ELSE [c EXCEPT !.clear = (@ \ Disk(x)) \cup (Disk(x) \ @)]

\* handleScratch on a canvas: the destination-out fill of the arc around x
\* makes the pixels of the disk transparent; edge are the rim pixels the
\* rasteriser covers in part: the first pass leaves their alpha at 128 or
\* above (faded), a second pass takes it below 128 (transparent)
handleScratch(c, x, edge) ==
    IF c.revealed THEN c
    ELSE LET cleared == c.clear \cup Disk(x) \cup (edge \cap c.faded)
         IN  [c EXCEPT !.clear = cleared,
                       !.faded = (@ \cup edge) \ cleared]

\* A move that measures the coverage and reveals as a gesture end does
ScratchMoveMeasuring(s, x, edge) ==
    /\ card[s].mounted
    /\ card[s].isScratching
    /\ ~card[s].revealed
    /\ LET scratched == handleScratch(card[s], x, edge)
       IN  /\ scratched # card[s]
           /\ IF OverThreshold(scratched.clear)
              THEN /\ card' = [card EXCEPT ![s] =
                                 [scratched EXCEPT !.revealed = TRUE,
                                                   !.clear = Pixels,
                                                   !.faded = {}]]
                   /\ handleReveal(s)
              ELSE /\ card' = [card EXCEPT ![s] = scratched]
                   /\ UNCHANGED <<currentUserRecord, storage, posts, timers,
                                  revealedLog, presented>>
    /\ UNCHANGED <<now, sheet, prizeStore, adminConfig, view, username, agent,
                   errorMsg, showResultModal, isVerifying, clientIp, login,
                   outcome, lastFetch>>
    /\ UNCHANGED <<prizeFetch, adminPanel>>

\* A move handler that scratches whether or not a gesture is under way
ScratchMoveAlways(s, x, edge) ==
    /\ card[s].mounted
    /\ card' = [card EXCEPT ![s] = handleScratch(@, x, edge)]
    /\ card'[s] # card[s]
    /\ UNCHANGED <<now, sheet, posts, storage, prizeStore, adminConfig, view,
                   username, agent, currentUserRecord, errorMsg,
                   showResultModal, isVerifying, clientIp, login, timers,
                   outcome, lastFetch, revealedLog, presented>>
    /\ UNCHANGED <<prizeFetch, adminPanel>>

\* onMouseMove / onTouchMove at x
ScratchMove(s, x, edge) ==
    /\ card[s].mounted
    /\ card' = [card EXCEPT ![s] =
                  IF ~@.isScratching THEN @ ELSE handleScratch(@, x, edge)]
    /\ card'[s] # card[s]
    /\ UNCHANGED <<now, sheet, posts, storage, prizeStore, adminConfig, view,
                   username, agent, currentUserRecord, errorMsg,
                   showResultModal, isVerifying, clientIp, login, timers,
                   outcome, lastFetch, revealedLog, presented>>
    /\ UNCHANGED <<prizeFetch, adminPanel>>

\* A stopScratching that measures whether or not the card is revealed
StopScratchingRemeasuring(s) ==
    /\ card[s].mounted
    /\ IF OverThreshold(card[s].clear)
       THEN /\ card' = [card EXCEPT ![s] =
                          [@ EXCEPT !.isScratching = FALSE, !.revealed = TRUE,
                                    !.clear = Pixels, !.faded = {}]]
            /\ handleReveal(s)
       ELSE /\ card' = [card EXCEPT ![s].isScratching = FALSE]
            /\ UNCHANGED <<currentUserRecord, storage, posts, timers,
                           revealedLog, presented>>
    /\ UNCHANGED <<now, sheet, prizeStore, adminConfig, view, username, agent,
                   errorMsg, showResultModal, isVerifying, clientIp, login,
                   outcome, lastFetch>>
    /\ UNCHANGED <<prizeFetch, adminPanel>>

\* onMouseUp / onMouseLeave / onTouchEnd: stopScratching, and onReveal when
\* the coverage passes the threshold
StopScratching(s) ==
    /\ card[s].mounted
    /\ IF ~card[s].revealed /\ OverThreshold(card[s].clear)
       THEN /\ card' = [card EXCEPT ![s] =
                          [@ EXCEPT !.isScratching = FALSE, !.revealed = TRUE,
                                    !.clear = Pixels, !.faded = {}]]
            /\ handleReveal(s)
       ELSE /\ card' = [card EXCEPT ![s].isScratching = FALSE]
            /\ UNCHANGED <<currentUserRecord, storage, posts, timers,
                           revealedLog, presented>>
    /\ UNCHANGED <<now, sheet, prizeStore, adminConfig, view, username, agent,
                   errorMsg, showResultModal, isVerifying, clientIp, login,
                   outcome, lastFetch>>
    /\ UNCHANGED <<prizeFetch, adminPanel>>

\* A logout that also forgets the stored records
HandleLogoutClearingCache(s) ==
    /\ view[s] = "GAME"
    /\ currentUserRecord[s] # NULL
    /\ view' = [view EXCEPT ![s] = "LOGIN"]
    /\ username' = [username EXCEPT ![s] = ""]
    /\ agent' = [agent EXCEPT ![s] = ""]
    /\ currentUserRecord' = [currentUserRecord EXCEPT ![s] = NULL]
    /\ showResultModal' = [showResultModal EXCEPT ![s] = FALSE]
    /\ errorMsg' = [errorMsg EXCEPT ![s] = ""]
    /\ card' = [card EXCEPT ![s] = Unmounted]
    /\ outcome' = [outcome EXCEPT ![s] = NoOutcome]
    /\ lastFetch' = [lastFetch EXCEPT ![s] = NoFetch]
    /\ storage' = [storage EXCEPT ![s] = Absent]
    /\ UNCHANGED <<now, sheet, posts, prizeStore, adminConfig,
                   isVerifying, clientIp, login, timers, revealedLog,
                   presented>>
    /\ UNCHANGED <<prizeFetch, adminPanel>>

\* handleLogout
HandleLogout(s) ==
    /\ view[s] = "GAME"
    /\ currentUserRecord[s] # NULL
    /\ view' = [view EXCEPT ![s] = "LOGIN"]
    /\ username' = [username EXCEPT ![s] = ""]
    /\ agent' = [agent EXCEPT ![s] = ""]
    /\ currentUserRecord' = [currentUserRecord EXCEPT ![s] = NULL]
    /\ showResultModal' = [showResultModal EXCEPT ![s] = FALSE]
    /\ errorMsg' = [errorMsg EXCEPT ![s] = ""]
    /\ card' = [card EXCEPT ![s] = Unmounted]
    /\ outcome' = [outcome EXCEPT ![s] = NoOutcome]
    /\ lastFetch' = [lastFetch EXCEPT ![s] = NoFetch]
    /\ UNCHANGED <<now, sheet, posts, storage, prizeStore, adminConfig,
                   isVerifying, clientIp, login, timers, revealedLog,
                   presented>>
    /\ UNCHANGED <<prizeFetch, adminPanel>>

\* A pending setTimeout(() => setShowResultModal(true)) fires
TimerFires(s) ==
    /\ timers[s] > 0
    /\ timers' = [timers EXCEPT ![s] = @ - 1]
    /\ showResultModal' = [showResultModal EXCEPT ![s] = TRUE]
    /\ UNCHANGED <<now, sheet, posts, storage, prizeStore, adminConfig, view,
                   username, agent, currentUserRecord, errorMsg, isVerifying,
                   clientIp, login, card, outcome, lastFetch, revealedLog, presented>>
    /\ UNCHANGED <<prizeFetch, adminPanel>>

\* The modal's backdrop or button: setShowResultModal(false)
CloseModal(s) ==
    /\ showResultModal[s]
    /\ currentUserRecord[s] # NULL
    /\ showResultModal' = [showResultModal EXCEPT ![s] = FALSE]
    /\ UNCHANGED <<now, sheet, posts, storage, prizeStore, adminConfig, view,
                   username, agent, currentUserRecord, errorMsg, isVerifying,
                   clientIp, login, timers, card, outcome, lastFetch, revealedLog,
                   presented>>
    /\ UNCHANGED <<prizeFetch, adminPanel>>

----------------------------------------------------------------------------
(* AdminPanel *)

\* The login screen's admin button: setView(AppView.ADMIN)
OpenAdmin(s) ==
    /\ view[s] = "LOGIN"
    /\ ~isVerifying[s]
    /\ view' = [view EXCEPT ![s] = "ADMIN"]
    /\ UNCHANGED <<now, sheet, posts, storage, prizeStore, adminConfig,
                   username, agent, currentUserRecord, errorMsg,
                   showResultModal, isVerifying, clientIp, login, timers, card,
                   outcome, lastFetch, revealedLog, presented>>
    /\ UNCHANGED <<prizeFetch, adminPanel>>

\* onBack: setView(AppView.LOGIN); the panel unmounts, its draft is gone and
\* a loadPrizes still awaiting its fetch can no longer set it
AdminBack(s) ==
    /\ view[s] = "ADMIN"
    /\ view' = [view EXCEPT ![s] = "LOGIN"]
    /\ adminPanel' = [adminPanel EXCEPT ![s] = PanelClosed]
    /\ prizeFetch' = [prizeFetch EXCEPT ![s] =
                        IF "admin" \in @ THEN (@ \ {"admin"}) \cup {"unmounted"}
                        ELSE @]
    /\ UNCHANGED <<now, sheet, posts, storage, prizeStore, adminConfig,
                   username, agent, currentUserRecord, errorMsg,
                   showResultModal, isVerifying, clientIp, login, timers, card,
                   outcome, lastFetch, revealedLog, presented>>

\* handleSecurityConfirm, SAVE_CONFIG with the right code:
\* saveAdminConfig(sheetUrl.trim(), isEnabled)
SaveConfig(s, sheetUrl, isEnabled) ==
    /\ view[s] = "ADMIN"
    /\ adminConfig' = [adminConfig EXCEPT ![s] =
                          [googleSheetUrl |-> trim(sheetUrl),
                           isEnabled |-> isEnabled]]
    /\ adminConfig'[s] # adminConfig[s]
    /\ UNCHANGED <<now, sheet, posts, storage, prizeStore, view, username,
                   agent, currentUserRecord, errorMsg, showResultModal,
                   isVerifying, clientIp, login, timers, card, outcome, lastFetch,
                   revealedLog, presented>>
    /\ UNCHANGED <<prizeFetch, adminPanel>>

----------------------------------------------------------------------------
(* The network, the ledger and the clock *)

\* A dispatched POST reaches the script: doPost runs
PostArrives(p) ==
    /\ p \in posts
    /\ posts' = posts \ {p}
    /\ sheet' = doPost(sheet, p)
    /\ UNCHANGED <<now, storage, prizeStore, adminConfig, view, username,
                   agent, currentUserRecord, errorMsg, showResultModal,
                   isVerifying, clientIp, login, timers, card, outcome, lastFetch,
                   revealedLog, presented>>
    /\ UNCHANGED <<prizeFetch, adminPanel>>

\* A failed POST that is reported to the user and undoes the reveal
PostFailsRollingBack(p) ==
    /\ p \in posts
    /\ posts' = posts \ {p}
    /\ errorMsg' = [s \in Sessions |-> "sync failed"]
    /\ currentUserRecord' =
          [s \in Sessions |->
              IF currentUserRecord[s] = NULL THEN NULL
              ELSE [currentUserRecord[s] EXCEPT !.isScratched = FALSE]]
    /\ UNCHANGED <<now, sheet, storage, prizeStore, adminConfig, view,
                   username, agent, showResultModal, isVerifying, clientIp,
                   login, timers, card, outcome, lastFetch, revealedLog,
                   presented>>
    /\ UNCHANGED <<prizeFetch, adminPanel>>

\* A dispatched POST fails: the fetch rejects, syncToGoogleSheet logs it
PostFails(p) ==
    /\ p \in posts
    /\ posts' = posts \ {p}
    /\ UNCHANGED <<now, sheet, storage, prizeStore, adminConfig, view,
                   username, agent, currentUserRecord, errorMsg,
                   showResultModal, isVerifying, clientIp, login, timers, card,
                   outcome, lastFetch, revealedLog, presented>>
    /\ UNCHANGED <<prizeFetch, adminPanel>>

\* Time passes
Tick(t) ==
    /\ t > now
    /\ now' = t
    /\ UNCHANGED <<sheet, posts, storage, prizeStore, adminConfig, view,
                   username, agent, currentUserRecord, errorMsg,
                   showResultModal, isVerifying, clientIp, login, timers, card,
                   outcome, lastFetch, revealedLog, presented>>
    /\ UNCHANGED <<prizeFetch, adminPanel>>

----------------------------------------------------------------------------
(* The prize catalog: the script's prize sheet, fetchPrizeConfig and the
   callers that store what it returns *)

\* A cell of the prize sheet passes doGet's if (data[i][0])
Truthy(cell) == IF cell.json = "number" THEN cell.num # 0 ELSE cell.str # ""

\* doGet, type prizes: the truthy cells of column A
doGetPrizes(cells) == SelectSeq(cells, Truthy)

\* getAdminConfig: adminSheetUrl mirrors googleSheetUrl, and is the default
\* URL when that is empty
adminSheetUrl(config) ==
    IF config.googleSheetUrl # "" THEN config.googleSheetUrl ELSE SheetUrl

\* fetchPrizeConfig: [] when sync is off, the URL is blank or not a URL, the
\* call fails or the body is no array; else the body mapped with Number and
\* filtered of NaN
fetchPrizeConfig(config, kind, cells) ==
    IF ~config.isEnabled \/ trim(adminSheetUrl(config)) = "" THEN <<>>
    ELSE IF adminSheetUrl(config) = "not a url" THEN <<>>
    ELSE IF kind = "array"
         THEN SelectSeq(MapNumber(doGetPrizes(cells)), NotNaN)
         ELSE <<>>

\* savePrizeConfig: JSON.stringify of the numbers under PRIZE_CONFIG_KEY
savePrizeConfig(prizes) ==
    Stored([i \in 1..Len(prizes) |-> JNumber(prizes[i])])

\* The Super Admin signs in on the admin panel: the effect on
\* isAuthenticated runs loadPrizes, which makes the stored catalog the draft
\* and issues fetchPrizeConfig
LoadPrizes(s) ==
    /\ view[s] = "ADMIN"
    /\ ~adminPanel[s].isAuthenticated
    /\ prizeFetch' = [prizeFetch EXCEPT ![s] = @ \cup {"admin"}]
    /\ adminPanel' = [adminPanel EXCEPT ![s] =
                        [isAuthenticated |-> TRUE,
                         localPrizes |->
                            SelectSeq(getPrizeConfig(prizeStore[s]), NotNaN)]]
    /\ UNCHANGED <<now, sheet, posts, storage, prizeStore, adminConfig, view,
                   username, agent, currentUserRecord, errorMsg,
                   showResultModal, isVerifying, clientIp, login, timers, card,
                   outcome, lastFetch, revealedLog, presented>>

\* A refresh that stores whatever list was fetched
PrizesFetchedStoringAny(s, who, kind, cells) ==
    /\ who \in prizeFetch[s]
    /\ prizeFetch' = [prizeFetch EXCEPT ![s] = @ \ {who}]
    /\ LET p == fetchPrizeConfig(adminConfig[s], kind, cells)
       IN  /\ prizeStore' = [prizeStore EXCEPT ![s] = savePrizeConfig(p)]
           /\ adminPanel' = IF who = "admin"
                            THEN [adminPanel EXCEPT ![s].localPrizes = p]
                            ELSE adminPanel
    /\ UNCHANGED <<now, sheet, posts, storage, adminConfig, view,
                   username, agent, currentUserRecord, errorMsg,
                   showResultModal, isVerifying, clientIp, login, timers, card,
                   outcome, lastFetch, revealedLog, presented>>

\* fetchPrizeConfig settles for the startup effect of App or for loadPrizes
\* (of the mounted panel, or of one since unmounted): a non-empty list is
\* stored, and becomes the draft of the panel that asked for it; anything
\* else leaves the stored catalog
PrizesFetched(s, who, kind, cells) ==
    /\ who \in prizeFetch[s]
    /\ prizeFetch' = [prizeFetch EXCEPT ![s] = @ \ {who}]
    /\ LET p == fetchPrizeConfig(adminConfig[s], kind, cells)
       IN  /\ prizeStore' = IF Len(p) > 0
                            THEN [prizeStore EXCEPT ![s] =
                                    savePrizeConfig(SelectSeq(p, NotNaN))]
                            ELSE prizeStore
           /\ adminPanel' = IF Len(p) > 0 /\ who = "admin"
                            THEN [adminPanel EXCEPT ![s].localPrizes =
                                    SelectSeq(p, NotNaN)]
                            ELSE adminPanel
    /\ UNCHANGED <<now, sheet, posts, storage, adminConfig, view,
                   username, agent, currentUserRecord, errorMsg,
                   showResultModal, isVerifying, clientIp, login, timers, card,
                   outcome, lastFetch, revealedLog, presented>>

\* parseInt of the text typed into the new-prize field
parseInt(text) ==
    CASE text = "58"    -> 58
      [] text = "100"   -> 100
      [] text = "12abc" -> 12
      [] text = "0"     -> 0
      [] text = "-5"    -> 0 - 5
      [] OTHER          -> NaN

includes(arr, val) == \E i \in 1..Len(arr) : arr[i] = val

\* arr.sort((a, b) => a - b): the same entries in ascending order
sort(arr) ==
    CHOOSE out \in [1..Len(arr) -> Range(arr)] :
        /\ \A i \in 1..(Len(arr) - 1) : out[i] <= out[i + 1]
        /\ \A v \in Range(arr) :
              Cardinality({i \in 1..Len(arr) : out[i] = v}) =
                 Cardinality({i \in 1..Len(arr) : arr[i] = v})

\* A handleAddPrize that appends whatever parseInt returns
handleAddPrizeUnchecked(s, text) ==
    /\ adminPanel[s].isAuthenticated
    /\ adminPanel' = [adminPanel EXCEPT ![s].localPrizes = Append(@, parseInt(text))]
    /\ UNCHANGED <<now, sheet, posts, storage, prizeStore, adminConfig, view,
                   username, agent, currentUserRecord, errorMsg,
                   showResultModal, isVerifying, clientIp, login, timers, card,
                   outcome, lastFetch, revealedLog, presented, prizeFetch>>

\* handleAddPrize: a value that is no number, not above 0 or already listed
\* is refused; else it is added and the draft sorted
handleAddPrize(s, text) ==
    /\ adminPanel[s].isAuthenticated
    /\ LET val == parseInt(text)
       IN  adminPanel' =
              IF isNaN(val) \/ val <= 0 THEN adminPanel
              ELSE IF includes(adminPanel[s].localPrizes, val) THEN adminPanel
              ELSE [adminPanel EXCEPT ![s].localPrizes = sort(Append(@, val))]
    /\ UNCHANGED <<now, sheet, posts, storage, prizeStore, adminConfig, view,
                   username, agent, currentUserRecord, errorMsg,
                   showResultModal, isVerifying, clientIp, login, timers, card,
                   outcome, lastFetch, revealedLog, presented, prizeFetch>>

\* handleDeletePrize: refused on a draft of one prize or none; else every
\* entry equal to val goes
handleDeletePrize(s, val) ==
    /\ adminPanel[s].isAuthenticated
    /\ adminPanel' =
          IF Len(adminPanel[s].localPrizes) <= 1 THEN adminPanel
          ELSE [adminPanel EXCEPT ![s].localPrizes =
                  SelectSeq(@, LAMBDA p : p # val)]
    /\ UNCHANGED <<now, sheet, posts, storage, prizeStore, adminConfig, view,
                   username, agent, currentUserRecord, errorMsg,
                   showResultModal, isVerifying, clientIp, login, timers, card,
                   outcome, lastFetch, revealedLog, presented, prizeFetch>>

----------------------------------------------------------------------------
(* Specifications *)

\* One browser against the ledger
Next ==
    \/ \E in \in LoginInputs : HandleLogin(1, in[1], in[2])
    \/ LoginClientIp(1, "10.0.0.1")
    \/ \E kind \in ResponseKinds : LoginFetch(1, kind)
    \/ LoginFallbackIp(1, "10.0.0.1")
    \/ StartScratching(1)
    \/ ScratchMove(1, 2, {})
    \/ StopScratching(1)
    \/ HandleLogout(1)
    \/ TimerFires(1)
    \/ CloseModal(1)
    \/ OpenAdmin(1)
    \/ AdminBack(1)
    \/ \E isEnabled \in BOOLEAN : SaveConfig(1, SheetUrl, isEnabled)
    \/ \E p \in posts : PostArrives(p)
    \/ \E p \in posts : PostFails(p)
    \/ \E t \in Instants : Tick(t)

Spec == Init /\ [][Next]_vars

\* The name typed in each browser
BrowserName(s) == IF s = 1 THEN "Alice" ELSE "alice"

\* Two browsers, each with its own localStorage, against the same ledger
NextMulti ==
    \/ \E s \in Sessions : HandleLogin(s, BrowserName(s), "07")
    \/ \E s \in Sessions : LoginClientIp(s, "10.0.0.1")
    \/ \E s \in Sessions : LoginFetch(s, "array")
    \/ \E s \in Sessions : StartScratching(s)
    \/ \E s \in Sessions : ScratchMove(s, 2, {})
    \/ \E s \in Sessions : StopScratching(s)
    \/ \E s \in Sessions : HandleLogout(s)
    \/ \E s \in Sessions : TimerFires(s)
    \/ \E s \in Sessions : CloseModal(s)
    \/ \E p \in posts : PostArrives(p)
    \/ \E p \in posts : PostFails(p)
    \/ Tick(18)

SpecMulti == Init /\ [][NextMulti]_vars

\* One browser against a ledger that already holds rows (written by other
\* clients or by hand in the sheet) and with records already cached
LedgerRows ==
    {Row(" Bob ", "HG07", JNumber(88), 0, 1, "no", "no", ""),
     Row("bob", "HG07", JNumber(58), 0, 1, "yes", "no", "10.0.0.1"),
     Row("Bob", "HG07", JNumber(38), 1, 25, "no", "no", ""),
     Row("", "HG07", JNumber(38), 0, 1, "yes", "no", ""),
     Row("alice", "HG07", JNumber(38), 0, 1, "yes", "no", "10.0.0.1")}

Ledgers ==
    {<<>>} \cup {<<r>> : r \in LedgerRows}
           \cup {<<r, q>> : r \in LedgerRows, q \in LedgerRows}

Caches ==
    {Absent,
     Stored(<<UserRecord("Bob", "HG07", 38, 0, 1, FALSE, FALSE, "")>>),
     Stored(<<UserRecord("bob", "HG07", 58, 0, 1, TRUE, FALSE, "")>>)}

InitLedger == \E rows \in Ledgers, cache \in Caches : Start(rows, cache, Absent)

NextLedger ==
    \/ \E u \in {"Bob", "bob"} : HandleLogin(1, u, "07")
    \/ \E ip \in Addresses : LoginClientIp(1, ip)
    \/ \E kind \in {"array", "networkError"} : LoginFetch(1, kind)
    \/ \E ip \in Addresses : LoginFallbackIp(1, ip)
    \/ HandleLogout(1)
    \/ \E t \in Instants : Tick(t)

SpecLedger == InitLedger /\ [][NextLedger]_vars

\* One browser over one midnight, when every network call of a login settles:
\* the two getClientIp calls and the GET of fetchRecordsFromSheet resolve or
\* reject
NextLive ==
    \/ \E in \in LoginInputs : HandleLogin(1, in[1], in[2])
    \/ LoginClientIp(1, "10.0.0.1")
    \/ \E kind \in ResponseKinds : LoginFetch(1, kind)
    \/ LoginFallbackIp(1, "10.0.0.1")
    \/ StartScratching(1)
    \/ ScratchMove(1, 2, {})
    \/ StopScratching(1)
    \/ HandleLogout(1)
    \/ TimerFires(1)
    \/ CloseModal(1)
    \/ OpenAdmin(1)
    \/ AdminBack(1)
    \/ \E isEnabled \in BOOLEAN : SaveConfig(1, SheetUrl, isEnabled)
    \/ \E p \in posts : PostArrives(p)
    \/ \E p \in posts : PostFails(p)
    \/ Tick(25)

SpecLive ==
    /\ Init
    /\ [][NextLive]_vars
    /\ WF_vars(LoginClientIp(1, "10.0.0.1"))
    /\ WF_vars(\E kind \in ResponseKinds : LoginFetch(1, kind))
    /\ WF_vars(LoginFallbackIp(1, "10.0.0.1"))


\* One browser whose ScratchCard is scratched at every pixel, by a rasteriser
\* that may cover any of the rim pixels in part
NextCard ==
    \/ HandleLogin(1, "Alice", "07")
    \/ LoginClientIp(1, "10.0.0.1")
    \/ LoginFetch(1, "array")
    \/ StartScratching(1)
    \/ \E x \in Pixels : \E edge \in SUBSET Fringe(x) : ScratchMove(1, x, edge)
    \/ StopScratching(1)
    \/ HandleLogout(1)
    \/ TimerFires(1)
    \/ CloseModal(1)
    \/ \E p \in posts : PostArrives(p)
    \/ \E p \in posts : PostFails(p)

SpecCard == Init /\ [][NextCard]_vars


\* One browser against a ledger whose one row was written or edited by hand:
\* the prize cell holds text or nothing, the flag cells may be empty
CellRows ==
    {Row("Alice", "HG07", JString("abc"), 0, 1, "no", "no", ""),
     Row("Alice", "HG07", JString(""), 0, 1, "", "", ""),
     Row("Alice", "HG07", JNumber(88), 0, 0, "no", "no", ""),
     Row("Alice", "HG07", JNumber(58), 0, 1, "yes", "", "")}

InitCells == \E row \in CellRows : Start(<<row>>, Absent, Absent)

NextCells ==
    \/ HandleLogin(1, "Alice", "07")
    \/ LoginClientIp(1, "10.0.0.1")
    \/ LoginFetch(1, "array")
    \/ StartScratching(1)
    \/ ScratchMove(1, 2, {})
    \/ StopScratching(1)
    \/ HandleLogout(1)
    \/ TimerFires(1)
    \/ CloseModal(1)
    \/ \E p \in posts : PostArrives(p)
    \/ \E p \in posts : PostFails(p)

SpecCells == InitCells /\ [][NextCells]_vars


\* One browser whose catalog is refreshed from a prize sheet that holds what
\* the admin panel saved or what was typed into it by hand
PrizeSheets ==
    {<<>>,
     <<JNumber(100), JNumber(200)>>,
     <<JString("abc")>>,
     <<JNumber(0), JNumber(58)>>,
     <<JString("0"), JNumber(58)>>}

NextPrizes ==
    \/ HandleLogin(1, "Alice", "07")
    \/ LoginClientIp(1, "10.0.0.1")
    \/ LoginFetch(1, "array")
    \/ HandleLogout(1)
    \/ OpenAdmin(1)
    \/ AdminBack(1)
    \/ \E isEnabled \in BOOLEAN : SaveConfig(1, SheetUrl, isEnabled)
    \/ LoadPrizes(1)
    \/ \E who \in {"startup", "admin"}, kind \in {"array", "networkError"},
          cells \in PrizeSheets : PrizesFetched(1, who, kind, cells)

SpecPrizes == Init /\ [][NextPrizes]_vars


\* The admin panel's prize editor, on a page whose stored catalog holds
\* distinct amounts above 0, in any order
EditorCatalogs ==
    {savePrizeConfig(<<38>>), savePrizeConfig(<<88, 38>>),
     savePrizeConfig(<<38, 58, 88>>)}

PrizeInputs == {"58", "100", "12abc", "0", "-5", "abc", ""}

InitEditor == \E catalog \in EditorCatalogs : Start(<<>>, Absent, catalog)

NextEditor ==
    \/ OpenAdmin(1)
    \/ AdminBack(1)
    \/ LoadPrizes(1)
    \/ \E who \in {"startup", "admin", "unmounted"} :
          PrizesFetched(1, who, "networkError", <<>>)
    \/ \E text \in PrizeInputs : handleAddPrize(1, text)
    \/ \E val \in {12, 38, 58, 88, 100} : handleDeletePrize(1, val)

SpecEditor == InitEditor /\ [][NextEditor]_vars

\* One browser whose localStorage already holds something under the records
\* key and the catalog key: nothing, text that does not parse, JSON that is
\* no array, or an array
StoredRecords ==
    {Absent, Unparsable, NotArray,
     Stored(<<UserRecord("Alice", "HG07", 58, 0, 1, FALSE, FALSE, "")>>)}

StoredCatalogs ==
    {Absent, Unparsable, NotArray,
     Stored(<<>>),
     Stored(<<JNumber(100), JNumber(200)>>),
     Stored(<<JString("abc")>>),
     Stored(<<JString("58"), JNumber(0)>>)}

InitStored ==
    \E cache \in StoredRecords, catalog \in StoredCatalogs :
        Start(<<>>, cache, catalog)

NextStored ==
    \/ \E in \in LoginInputs : HandleLogin(1, in[1], in[2])
    \/ \E ip \in Addresses : LoginClientIp(1, ip)
    \/ \E kind \in {"array", "networkError"} : LoginFetch(1, kind)
    \/ \E ip \in Addresses : LoginFallbackIp(1, ip)
    \/ StartScratching(1)
    \/ ScratchMove(1, 2, {})
    \/ StopScratching(1)
    \/ HandleLogout(1)
    \/ TimerFires(1)
    \/ CloseModal(1)
    \/ \E p \in posts : PostArrives(p)
    \/ \E p \in posts : PostFails(p)

SpecStored == InitStored /\ [][NextStored]_vars

----------------------------------------------------------------------------
(* Properties *)

\* The step in which the handleLogin call of session s settles
LoginSettles(s) == login[s].pc \in {"fetch", "ip2"} /\ login'[s].pc = "idle"

\* The pending login of session s is for the identity of entry e, and began
\* on the current day
LoginIsFor(s, e) ==
    /\ toLowerCase(login[s].user) = e.username
    /\ login[s].today = e.date
    /\ DateOf(now) = e.date

C2_LoginIdempotent ==
    [][\A e \in presented :
          (/\ LoginSettles(1)
           /\ LoginIsFor(1, e)
           /\ \A x \in revealedLog :
                 ~(x.username = e.username /\ x.date = e.date)) =>
             /\ outcome'[1].kind = "Resume"
             /\ currentUserRecord'[1].prize = e.prize
             /\ storage'[1] = storage[1]]_vars

\* A second login resumed a record created 17 hours earlier the same day
C2_Witness ==
    /\ outcome[1].kind = "Resume"
    /\ currentUserRecord[1].timestamp = 1
    /\ now = 18
    /\ revealedLog = {}

\* C3: every record presented or pushed for one (normalized username, date),
\* by any browser, carries the same prize.
C3_OnePrizePerDay ==
    \A e1 \in presented, e2 \in presented :
        (e1.username = e2.username /\ e1.date = e2.date) => e1.prize = e2.prize

\* The step in which session s takes up the answer to its fetch
FetchSettles(s) == login[s].pc = "fetch" /\ login'[s].pc # "fetch"

\* The rows of the ledger that are the pending login's user's, dated the
\* login's today
TodayRows(s) ==
    {r \in Range(doGet(sheet)) :
        /\ toLowerCase(trim(r.username)) = toLowerCase(login[s].user)
        /\ r.date = login[s].today}

CachedRecords(s) == Range(loadAllRecords(storage[s]))

\* C4: when the fetch returns the ledger's rows and one of them is the
\* user's for today, the login presents such a row, Blocked if it is
\* scratched and Resume if not, whatever the Local Cache holds; the cache gains
\* no record other than that row.
C4_CloudRecordDecides ==
    [][(FetchSettles(1) /\ lastFetch'[1].read /\ TodayRows(1) # {}) =>
          /\ currentUserRecord'[1] \in TodayRows(1)
          /\ outcome'[1].kind =
                (IF currentUserRecord'[1].isScratched THEN "Blocked" ELSE "Resume")
          /\ Range(loadAllRecords(storage'[1])) \subseteq
                CachedRecords(1) \cup TodayRows(1)]_vars

\* A login resumed an unscratched row whose name matched only after trimming
\* and lowercasing, over a cache holding another prize for the same user
C4_Witness ==
    /\ outcome[1].kind = "Resume"
    /\ outcome[1].via = "cloud"
    /\ currentUserRecord[1].username = " Bob "
    /\ login[1].pc = "idle"
    /\ username[1] = "bob"
    /\ \E r \in CachedRecords(1) :
          r.username = "Bob" /\ r.date = 0 /\ r.prize # currentUserRecord[1].prize

\* C5: when the rows returned hold several rows of the user dated today, the
\* row the login takes is one with the greatest timestamp.
C5_NewestRowSelected ==
    [][\A s \in Sessions :
          (FetchSettles(s) /\ lastFetch'[s].read /\ TodayRows(s) # {}) =>
             \A r \in TodayRows(s) :
                currentUserRecord'[s].timestamp >= r.timestamp]_vars

\* The login of session s settles on a record of the Local Cache
HonorsCache(s) ==
    /\ LoginSettles(s)
    /\ outcome'[s].via \in {"local", "catch"}
    /\ outcome'[s].kind \in {"Resume", "Blocked"}

\* The records of the Local Cache that are the pending login's user's, dated
\* the current day
TodayCached(s) ==
    {r \in CachedRecords(s) :
        /\ toLowerCase(r.username) = toLowerCase(login[s].user)
        /\ r.date = DateOf(now)}

\* The login of session s, begun on the current day, takes up the answer to
\* its fetch and no row of the answer decides it
FallsBackToCache(s) ==
    /\ FetchSettles(s)
    /\ login[s].today = DateOf(now)
    /\ ~(login'[s].pc = "idle" /\ outcome'[s].via = "cloud")

\* C6 as stated: a record of the Local Cache that a login honors is at most
\* 8 hours old and dated today.
C6_HonoredWithinEightHours ==
    [][HonorsCache(1) =>
          /\ now - currentUserRecord'[1].timestamp <= EIGHT_HOURS_MS
          /\ currentUserRecord'[1].date = DateOf(now)]_vars

\* C6: in the Local Cache fallback a cached record of the user is honored if
\* and only if its date is today, whatever its timestamp: with such a record
\* cached the login ends Resume or Blocked on it, with none it makes a new game.
C6_HonoredWhenDatedToday ==
    [][FallsBackToCache(1) =>
          IF TodayCached(1) # {}
          THEN /\ HonorsCache(1)
               /\ currentUserRecord'[1] \in TodayCached(1)
          ELSE /\ ~HonorsCache(1)
               /\ \/ login'[1].pc = "ip2"
                  \/ outcome'[1].kind = "Fresh"]_vars

\* A login resumed from the Local Cache a record of today older than 8 hours
C6_Witness ==
    /\ outcome[1].kind = "Resume"
    /\ outcome[1].via = "local"
    /\ login[1].pc = "idle"
    /\ currentUserRecord[1].date = DateOf(now)
    /\ now - currentUserRecord[1].timestamp > EIGHT_HOURS_MS

\* C7: getRecord returns no record dated another day, a login never settles
\* on a cached record dated another day, and a login that no row decides and
\* that finds only other days' records of the user cached makes a new game.
C7_OtherDayNeverResumed ==
    [][/\ \A u \in InputNames :
             LET found == getRecord(storage[1], u, DateOf(now), now)
             IN  found = NULL \/ found.date = DateOf(now)
       /\ HonorsCache(1) =>
             /\ currentUserRecord'[1].date = login[1].today
             /\ currentUserRecord'[1].date = DateOf(now)
       /\ (FallsBackToCache(1) /\ TodayCached(1) = {}) =>
             \/ login'[1].pc = "ip2"
             \/ /\ outcome'[1].kind = "Fresh"
                /\ currentUserRecord'[1].date = DateOf(now)]_vars

\* A login made a new game although the cache held the user's record of the
\* day before, less than 8 hours old
C7_Witness ==
    /\ outcome[1].kind = "Fresh"
    /\ login[1].pc = "idle"
    /\ currentUserRecord[1].date = DateOf(now)
    /\ \E r \in CachedRecords(1) :
          /\ toLowerCase(r.username) = toLowerCase(currentUserRecord[1].username)
          /\ r.date # DateOf(now)
          /\ now - r.timestamp <= EIGHT_HOURS_MS

\* C8: when the fetch of a login throws, a cached record of the user dated
\* today is resumed as it is and the cache is left alone; with none cached the
\* login goes on to a new game and the game view.
C8_FetchFailureFallsBack ==
    [][/\ (FetchSettles(1) /\ lastFetch'[1].result = "threw"
              /\ login[1].today = DateOf(now)) =>
             IF TodayCached(1) # {}
             THEN /\ currentUserRecord'[1] \in TodayCached(1)
                  /\ outcome'[1].kind =
                        (IF currentUserRecord'[1].isScratched
                         THEN "Blocked" ELSE "Resume")
                  /\ outcome'[1].via = "catch"
                  /\ storage'[1] = storage[1]
                  /\ view'[1] = "GAME"
             ELSE login'[1].pc = "ip2"
       /\ (login[1].pc = "ip2" /\ login'[1].pc # "ip2") =>
             /\ outcome'[1].kind = "Fresh"
             /\ view'[1] = "GAME"
             /\ ~isVerifying'[1]
             /\ currentUserRecord'[1] \in CachedRecords(1)']_vars

\* A login whose fetch threw resumed the cached record
C8_Witness ==
    /\ outcome[1].kind = "Resume"
    /\ outcome[1].via = "catch"
    /\ lastFetch[1].result = "threw"
    /\ login[1].pc = "idle"
    /\ currentUserRecord[1] \in CachedRecords(1)

\* C9: a fetch ends with an empty list only when the ledger was read and
\* holds no rows.
C9_EmptyMeansNoRows ==
    [][(FetchSettles(1) /\ lastFetch'[1].result = "empty") =>
          /\ lastFetch'[1].read
          /\ doGet(sheet) = <<>>]_vars

\* C10: in each browser, a scratched record of the Local Cache is never
\* followed by an unscratched cached record of the same identity, and a
\* scratched session record has no unscratched cached record of its identity.
C10_ScratchedNeverReverts ==
    [][\A s \in Sessions :
          /\ \A r \in CachedRecords(s) :
                r.isScratched =>
                   \A q \in Range(loadAllRecords(storage'[s])) :
                      Identity(q) = Identity(r) => q.isScratched
          /\ (currentUserRecord'[s] # NULL /\ currentUserRecord'[s].isScratched) =>
                \A q \in Range(loadAllRecords(storage'[s])) :
                   Identity(q) = Identity(currentUserRecord'[s]) => q.isScratched]_vars

\* A login copied over the browser's scratched record the scratched row that
\* another browser pushed for the same identity
C10_Witness ==
    \E s \in Sessions :
        /\ outcome[s].via = "cloud"
        /\ currentUserRecord[s].isScratched
        /\ currentUserRecord[s].username # username[s]
        /\ currentUserRecord[s] \in CachedRecords(s)
        /\ \E e \in revealedLog :
              /\ e.username = Identity(currentUserRecord[s]).username
              /\ e.date = currentUserRecord[s].date
              /\ e.prize # currentUserRecord[s].prize

\* C11: in each browser, the prize cached for an identity (normalized
\* username, date) never changes: every record cached for the identity after
\* a step carries the prize of every record cached for it before.
C11_PrizeImmutable ==
    [][\A s \in Sessions :
          \A r \in CachedRecords(s) :
             \A q \in Range(loadAllRecords(storage'[s])) :
                Identity(q) = Identity(r) => q.prize = r.prize]_vars

\* The ScratchCard of session s signals onReveal: a stopScratching finds the
\* covered card scratched past the threshold
OnReveal(s) ==
    /\ card[s].mounted
    /\ ~card[s].revealed
    /\ OverThreshold(card[s].clear)
    /\ card'[s].revealed

\* The session record of s goes from unscratched to scratched
RevealTransition(s) ==
    /\ currentUserRecord[s] # NULL
    /\ ~currentUserRecord[s].isScratched
    /\ currentUserRecord'[s] = [currentUserRecord[s] EXCEPT !.isScratched = TRUE]

\* C12: the session record turns scratched only on the card's onReveal, and
\* every onReveal finds the record unscratched (so it is revealed once); a
\* scratched session record stays as it is until logout; the reveal
\* dispatches the one POST of syncToGoogleSheet, and no other step dispatches
\* a POST (none is sent again after one fails).
C12_RevealOnceOnePush ==
    [][/\ RevealTransition(1) =>
             /\ OnReveal(1)
             /\ posts' \ posts = syncToGoogleSheet(adminConfig[1], currentUserRecord'[1], now)
             /\ SyncConfigured(adminConfig[1]) => Cardinality(posts' \ posts) = 1
       /\ OnReveal(1) => RevealTransition(1)
       /\ (currentUserRecord[1] # NULL /\ currentUserRecord[1].isScratched) =>
             \/ currentUserRecord'[1] = currentUserRecord[1]
             \/ currentUserRecord'[1] = NULL
       /\ ~(posts' \subseteq posts) => RevealTransition(1)]_vars

\* The card was scratched in this session, the one push failed and nothing
\* was sent after it
C12_Witness ==
    /\ currentUserRecord[1] # NULL
    /\ currentUserRecord[1].isScratched
    /\ outcome[1].kind = "Fresh"
    /\ card[1].revealed
    /\ SyncConfigured(adminConfig[1])
    /\ posts = {}
    /\ sheet = <<>>

\* What a reload of the page in browser s reads from the Local Cache for the
\* user and day of entry e: the first record of that user and day
CacheRead(s, e) ==
    LET data == loadAllRecords(storage[s])
    IN  find(data, {i \in 1..Len(data) :
                       /\ toLowerCase(data[i].username) = e.username
                       /\ data[i].date = e.date})

\* C13: from the reveal of a record on, the Local Cache read for its user and
\* day yields a scratched record, and so does getRecord while that day lasts;
\* a POST is in flight only for a record the cache already holds scratched.
C13_CacheScratchedFromReveal ==
    /\ \A e \in revealedLog :
          /\ CacheRead(1, e) # NULL
          /\ CacheRead(1, e).isScratched
          /\ e.date = DateOf(now) =>
                /\ getRecord(storage[1], e.username, DateOf(now), now) # NULL
                /\ getRecord(storage[1], e.username, DateOf(now), now).isScratched
    /\ \A p \in posts :
          /\ CacheRead(1, Identity(p)) # NULL
          /\ CacheRead(1, Identity(p)).isScratched

\* After a reveal whose push is still in flight the page was left, and the
\* cache holds the scratched record
C13_Witness ==
    /\ view[1] = "LOGIN"
    /\ currentUserRecord[1] = NULL
    /\ revealedLog # {}
    /\ posts # {}
    /\ sheet = <<>>
    /\ \A e \in revealedLog : CacheRead(1, e).isScratched

\* A POST of the set in flight settles, arriving or failing
PushSettles == posts' # posts /\ posts' \subseteq posts

\* C14: the step that turns the session record scratched also caches it
\* scratched and arms the result modal, with its POST still in flight; the
\* settling of a POST, whichever way, changes nothing in any browser: not the
\* session record, the cache, the error message, the view or the modal.
C14_PushFireAndForget ==
    [][/\ RevealTransition(1) =>
             /\ currentUserRecord'[1] \in Range(loadAllRecords(storage'[1]))
             /\ timers'[1] > 0
             /\ syncToGoogleSheet(adminConfig[1], currentUserRecord'[1], now)
                   \subseteq posts'
             /\ errorMsg'[1] = errorMsg[1]
       /\ PushSettles =>
             /\ currentUserRecord' = currentUserRecord
             /\ storage' = storage
             /\ errorMsg' = errorMsg
             /\ view' = view
             /\ showResultModal' = showResultModal
             /\ timers' = timers
             /\ card' = card]_vars

\* The result is on screen for a record scratched in this session whose push
\* has failed
C14_Witness ==
    /\ showResultModal[1]
    /\ currentUserRecord[1] # NULL
    /\ currentUserRecord[1].isScratched
    /\ outcome[1].kind = "Fresh"
    /\ errorMsg[1] = ""
    /\ SyncConfigured(adminConfig[1])
    /\ posts = {}
    /\ sheet = <<>>
    /\ currentUserRecord[1] \in CachedRecords(1)

\* The login of session s settles in a new game
SettlesFresh(s) == LoginSettles(s) /\ outcome'[s].kind = "Fresh"

\* C15: a login that settles Fresh enters the game view with a session record
\* made of the username as typed (trimmed, casing kept), the prefixed agent
\* code, today's date, the current instant, both flags false, the client IP
\* obtained by the login and a prize of the catalog; the Local Cache of the
\* step's end holds that record, and holds no other record it did not hold.
C15_FreshRecord ==
    [][SettlesFresh(1) =>
          LET new == currentUserRecord'[1]
          IN  /\ new # NULL
              /\ new.username = trim(username[1])
              /\ new.agent = "HG" \o trim(agent[1])
              /\ new.date = DateOf(now)
              /\ new.timestamp = now
              /\ ~new.isScratched
              /\ ~new.isClaimed
              /\ new.ip \in Addresses
              /\ outcome'[1].via = "local" => new.ip = clientIp[1]
              /\ new.prize \in PrizeChoices(prizeStore[1])
              /\ view'[1] = "GAME"
              /\ new \in Range(loadAllRecords(storage'[1]))
              /\ Range(loadAllRecords(storage'[1])) \ CachedRecords(1) = {new}]_vars

\* A new game began for the name typed with a capital, kept as typed, with
\* the cache holding the record on entry to the game
C15_Witness ==
    /\ outcome[1].kind = "Fresh"
    /\ view[1] = "GAME"
    /\ username[1] = "Alice"
    /\ currentUserRecord[1].username = "Alice"
    /\ currentUserRecord[1].ip = "10.0.0.1"
    /\ ~currentUserRecord[1].isScratched
    /\ CachedRecords(1) = {currentUserRecord[1]}

\* A step of the handleLogin call of session s: it starts, resumes after an
\* await, or settles
LoginStep(s) == login'[s] # login[s]

\* C16: no step of handleLogin, whatever its outcome, dispatches a POST or
\* changes the sheet; a POST is dispatched only by the step that turns the
\* session record scratched, and the sheet changes only when a POST arrives.
C16_LoginNeverWritesRemote ==
    [][/\ LoginStep(1) => (posts' = posts /\ sheet' = sheet)
       /\ ~(posts' \subseteq posts) =>
             (RevealTransition(1) /\ ~LoginStep(1))
       /\ sheet' # sheet => \E p \in posts : sheet' = doPost(sheet, p)]_vars

\* A new game began on the fail-open path with sync enabled: nothing is in
\* flight and the sheet is empty
C16_Witness ==
    /\ outcome[1] = [kind |-> "Fresh", via |-> "catch"]
    /\ view[1] = "GAME"
    /\ currentUserRecord[1] \in CachedRecords(1)
    /\ SyncConfigured(adminConfig[1])
    /\ posts = {}
    /\ sheet = <<>>

\* Session s leaves the game view for the login view
LogsOut(s) == view[s] = "GAME" /\ view'[s] = "LOGIN"

\* C17: the step that takes a session from the game view to the login view
\* empties the username and agent inputs, the session record, the result
\* modal and the error message, and leaves every browser's Local Cache, the
\* sheet and the POSTs in flight as they were.
C17_LogoutKeepsRecords ==
    [][LogsOut(1) =>
          /\ username'[1] = ""
          /\ agent'[1] = ""
          /\ currentUserRecord'[1] = NULL
          /\ ~showResultModal'[1]
          /\ errorMsg'[1] = ""
          /\ storage' = storage
          /\ sheet' = sheet
          /\ posts' = posts
          /\ prizeStore' = prizeStore
          /\ adminConfig' = adminConfig]_vars

\* Logged out after a reveal whose push is still in flight: the inputs, the
\* record, the modal and the message are cleared, the cache and the POST are
\* still there
C17_Witness ==
    /\ view[1] = "LOGIN"
    /\ username[1] = ""
    /\ agent[1] = ""
    /\ currentUserRecord[1] = NULL
    /\ ~showResultModal[1]
    /\ errorMsg[1] = ""
    /\ login[1].pc = "idle"
    /\ \E r \in CachedRecords(1) : r.isScratched
    /\ posts # {}

\* A handleLogin call of session s is suspended at one of its awaits
LoginPending(s) == login[s].pc # "idle"

\* C18: isVerifying is true exactly while a handleLogin call is suspended,
\* and while it is, no handleLogin call starts: the pending call keeps its
\* user, agent code and date until it settles, and the view stays the login
\* view.
C18_OneLoginAtATime ==
    [][\A s \in Sessions :
          /\ isVerifying[s] <=> LoginPending(s)
          /\ LoginPending(s) =>
                /\ login'[s].pc = "ip" => login[s].pc = "ip"
                /\ \/ login'[s] = Idle
                   \/ /\ login'[s].user = login[s].user
                      /\ login'[s].agent = login[s].agent
                      /\ login'[s].today = login[s].today
                /\ view[s] = "LOGIN"]_vars

\* A login is suspended at its second getClientIp, after its fetch threw
C18_Witness ==
    /\ isVerifying[1]
    /\ login[1].pc = "ip2"
    /\ view[1] = "LOGIN"
    /\ lastFetch[1].result = "threw"

\* Session s is in the game view with a record and no verification pending
InGame(s) ==
    /\ ~isVerifying[s]
    /\ view[s] = "GAME"
    /\ currentUserRecord[s] # NULL

\* C19: a pending login eventually ends in the game view with a record and
\* isVerifying false; and whenever a login settles, fetch failure included,
\* it settles there, as Resume, Blocked or Fresh, never back at the login view.
C19_LoginCompletes ==
    /\ [][LoginSettles(1) =>
             /\ ~isVerifying'[1]
             /\ view'[1] = "GAME"
             /\ currentUserRecord'[1] # NULL
             /\ outcome'[1].kind \in {"Resume", "Blocked", "Fresh"}]_vars
    /\ (isVerifying[1] ~> InGame(1))

\* A login whose fetch threw and that found nothing cached has ended in the
\* game view with a new record
C19_Witness ==
    /\ InGame(1)
    /\ outcome[1] = [kind |-> "Fresh", via |-> "catch"]
    /\ lastFetch[1].result = "threw"
    /\ login[1].pc = "idle"

\* The records among rs that bear one of the names that differ only in
\* letter case, dated the current day
SameNameToday(rs) ==
    {r \in rs : r.username \in InputNames /\ r.date = DateOf(now)}

\* C20: with logins under names that differ only in letter case, the Local
\* Cache never holds two records of one day; and a login begun today that
\* takes up its fetch while the cache, or the ledger it read, holds a record
\* of today under either casing settles on such a record, Resume or Blocked,
\* and the cache gains no record that was not cached or fetched.
C20_CaseInsensitiveIdentity ==
    [][/\ \A r \in CachedRecords(1), q \in CachedRecords(1) :
             (r.username \in InputNames /\ q.username \in InputNames
                 /\ r.date = q.date) => r = q
       /\ LET cached == SameNameToday(CachedRecords(1))
              fetched == IF lastFetch'[1].read
                         THEN SameNameToday(Range(doGet(sheet))) ELSE {}
          IN  (/\ FetchSettles(1)
               /\ login[1].today = DateOf(now)
               /\ cached \cup fetched # {}) =>
                  /\ login'[1].pc = "idle"
                  /\ outcome'[1].kind \in {"Resume", "Blocked"}
                  /\ currentUserRecord'[1] \in cached \cup fetched
                  /\ Range(loadAllRecords(storage'[1])) \subseteq
                        CachedRecords(1) \cup fetched]_vars

\* A login typed in lowercase settled on the row written for the capitalised
\* name, now the only record cached
C20_Witness ==
    /\ outcome[1].via = "cloud"
    /\ username[1] = "alice"
    /\ currentUserRecord[1].username = "Alice"
    /\ CachedRecords(1) = {currentUserRecord[1]}
    /\ login[1].pc = "idle"

\* C21: the Local Cache holds at most one record per identity (trimmed and
\* lowercased username, date).
C21_OneRecordPerIdentity ==
    \A r \in CachedRecords(1), q \in CachedRecords(1) :
        Identity(r) = Identity(q) => r = q

\* Session s shows a record that its login found scratched
BlockedSession(s) ==
    /\ outcome[s].kind = "Blocked"
    /\ view[s] = "GAME"
    /\ currentUserRecord[s] # NULL

\* C22: in a Blocked session the card is revealed and fully uncovered, and
\* until logout every step leaves it so, signals no onReveal, keeps the
\* session record, writes nothing to the Local Cache and dispatches no POST.
C22_BlockedIsDisplayOnly ==
    [][BlockedSession(1) =>
          /\ card[1].mounted
          /\ card[1].revealed
          /\ card[1].clear = Pixels
          /\ ~OnReveal(1)
          /\ ~RevealTransition(1)
          /\ storage' = storage
          /\ posts' \subseteq posts
          /\ \/ ~card'[1].mounted /\ currentUserRecord'[1] = NULL
             \/ /\ card'[1].revealed
                /\ card'[1].clear = card[1].clear
                /\ currentUserRecord'[1] = currentUserRecord[1]]_vars

\* A scratching gesture is under way on the card of a Blocked session
C22_Witness ==
    /\ BlockedSession(1)
    /\ card[1].isScratching
    /\ card[1].revealed
    /\ currentUserRecord[1].isScratched

\* Records with their ip fields blanked
BlindIp(rs) == [i \in 1..Len(rs) |-> [rs[i] EXCEPT !.ip = ""]]

SansIp(r) == IF r = NULL THEN NULL ELSE [r EXCEPT !.ip = ""]

IpCorrelated(s) ==
    /\ FetchSettles(s)
    /\ lastFetch'[s].read
    /\ IpDuplicate(doGet(sheet), clientIp[s], login[s].user, login[s].today)

\* The step leaves the application of session s as the same login would with
\* every ip field blanked: same view, message, modal, timers, outcome and
\* record (but for the record's ip)
SettlesAsWithoutIp(s) ==
    LET rows == IF lastFetch'[s].read THEN BlindIp(doGet(sheet)) ELSE <<>>
        cloud == CloudRecord(rows, login[s].user, login[s].today)
        local == LocalRecord(Stored(BlindIp(loadAllRecords(storage[s]))),
                             login[s].user, login[s].today, now)
        chosen == IF cloud # NULL THEN cloud ELSE local
    IN  /\ view'[s] = "GAME"
        /\ ~isVerifying'[s]
        /\ showResultModal'[s] = showResultModal[s]
        /\ IF chosen # NULL
           THEN /\ SansIp(currentUserRecord'[s]) = chosen
                /\ errorMsg'[s] = (IF chosen.isScratched THEN "exhausted"
                                   ELSE errorMsg[s])
                /\ timers'[s] = (IF chosen.isScratched THEN AddTimer(timers[s])
                                 ELSE timers[s])
                /\ outcome'[s].kind =
                      (IF chosen.isScratched THEN "Blocked" ELSE "Resume")
           ELSE /\ outcome'[s].kind = "Fresh"
                /\ errorMsg'[s] = ""
                /\ timers'[s] = timers[s]

\* C24: a login whose address is that of another username's scratched row of
\* today leaves a mark of it in the application's state: the step does not
\* end as the same login would without the correlation.
C24_IpCorrelationExposed ==
    [][IpCorrelated(1) => ~SettlesAsWithoutIp(1)]_vars

\* C25: a login that settles Fresh creates a record whose prize is an entry
\* of the catalog getPrizeConfig reads, or 38 when that catalog is empty; the
\* catalog read from an absent, unparsable or non-array value is 38, 58, 88;
\* and with any stored catalog a login that finds no record settles Fresh.
C25_PrizeFromCatalog ==
    [][/\ SettlesFresh(1) =>
             LET catalog == getPrizeConfig(prizeStore[1])
             IN  /\ Len(catalog) > 0 =>
                       currentUserRecord'[1].prize \in Range(catalog)
                 /\ Len(catalog) = 0 => currentUserRecord'[1].prize = 38
                 /\ prizeStore[1].raw # "array" =>
                       currentUserRecord'[1].prize \in {38, 58, 88}
       /\ prizeStore[1].raw # "array" =>
             getPrizeConfig(prizeStore[1]) = <<38, 58, 88>>
       /\ (FetchSettles(1) /\ storage[1].raw \in {"absent", "unparsable"}) =>
             \/ login'[1].pc = "ip2"
             \/ SettlesFresh(1)]_vars

\* A new game was created with the default 38 from a stored catalog all of
\* whose entries are filtered out
C25_Witness ==
    /\ outcome[1].kind = "Fresh"
    /\ prizeStore[1].raw = "array"
    /\ Len(prizeStore[1].items) > 0
    /\ getPrizeConfig(prizeStore[1]) = <<>>
    /\ currentUserRecord[1].prize = 38
    /\ currentUserRecord[1] \in CachedRecords(1)

\* C30: with a records key that holds no JSON array, a login proceeds as
\* with an empty cache: it settles in the game view with a record, the cache
\* then holding an array; and a catalog key that holds no JSON array reads as
\* the default catalog.
C30_MalformedReadsAsEmpty ==
    [][/\ (FetchSettles(1) /\ storage[1].raw \in {"unparsable", "nonArray"}) =>
             \/ login'[1].pc = "ip2"
             \/ /\ SettlesFresh(1)
                /\ view'[1] = "GAME"
                /\ Range(loadAllRecords(storage'[1])) = {currentUserRecord'[1]}
       /\ prizeStore[1].raw \in {"unparsable", "nonArray"} =>
             getPrizeConfig(prizeStore[1]) = DefaultPrizes]_vars


\* A gesture on the card of session s ends: isScratching goes from true to
\* false on a card that stays mounted
GestureEnds(s) ==
    /\ card[s].mounted
    /\ card[s].isScratching
    /\ card'[s].mounted
    /\ ~card'[s].isScratching

\* C26: on a covered card, a gesture that ends with more than 40 percent of
\* the pixels transparent reveals the card and the session record; while 40
\* percent or less is transparent (exactly 40 included) no step reveals
\* either; the card is revealed by no other step; and between gestures a
\* covered card never has more than 40 percent transparent, so the reveal
\* comes at the first gesture end that measures more than 40.
C26_RevealPastForty ==
    [][(card[1].mounted /\ ~card[1].revealed) =>
          LET over == Cardinality(card[1].clear) * 100 >
                          RevealThreshold * Cardinality(Pixels)
          IN  /\ ~card[1].isScratching => ~over
              /\ (GestureEnds(1) /\ over) =>
                    (card'[1].revealed /\ RevealTransition(1))
              /\ ~over => /\ ~(card'[1].mounted /\ card'[1].revealed)
                          /\ ~RevealTransition(1)
              /\ (card'[1].mounted /\ card'[1].revealed) =>
                    (GestureEnds(1) /\ over)]_vars

\* A gesture has ended with exactly 40 percent transparent and the card is
\* still covered
C26_Witness ==
    /\ card[1].mounted
    /\ ~card[1].revealed
    /\ ~card[1].isScratching
    /\ Cardinality(card[1].clear) * 100 = RevealThreshold * Cardinality(Pixels)
    /\ ~currentUserRecord[1].isScratched

\* The coverage calculateRevealPercentage measures on a canvas
Coverage(c) == calculateRevealPercentage(c.clear)

\* C27 as stated: on a card being scratched, a second scratch at the same
\* point leaves the coverage where the first left it, no scratch lowers the
\* coverage, and the coverage lies between 0 and 100, 0 on an untouched
\* surface and 100 on a fully uncovered one.
C27_ScratchIdempotent ==
    (card[1].mounted /\ card[1].isScratching) =>
        /\ \A x \in Pixels : \A edge \in SUBSET Fringe(x) :
              LET once == handleScratch(card[1], x, edge)
                  twice == handleScratch(once, x, edge)
              IN  /\ Coverage(twice) = Coverage(once)
                  /\ Coverage(once).num >= Coverage(card[1]).num
        /\ Coverage(card[1]).num >= 0
        /\ Coverage(card[1]).num <= 100 * Coverage(card[1]).den
        /\ card[1].clear = {} => Coverage(card[1]).num = 0
        /\ card[1].clear = Pixels =>
              Coverage(card[1]).num = 100 * Coverage(card[1]).den

\* C27 amended: no scratch and no other step on a mounted card makes a
\* transparent pixel opaque again; a second scratch at the same point keeps
\* the disk transparent and can add only rim pixels the first pass covered
\* in part, none when the rasteriser draws crisp edges; the coverage lies
\* between 0 and 100, 0 on an untouched surface and 100 on a fully uncovered
\* one.
C27_ScratchMonotonic ==
    [][/\ (card[1].mounted /\ card[1].isScratching) =>
             \A x \in Pixels : \A edge \in SUBSET Fringe(x) :
                LET once == handleScratch(card[1], x, edge)
                    twice == handleScratch(once, x, edge)
                IN  /\ card[1].clear \subseteq once.clear
                    /\ ~card[1].revealed => Disk(x) \subseteq once.clear
                    /\ once.clear \subseteq twice.clear
                    /\ (twice.clear \ once.clear) \subseteq edge
                    /\ edge = {} => twice = once
       /\ card[1].mounted =>
             /\ Coverage(card[1]).num >= 0
             /\ Coverage(card[1]).num <= 100 * Coverage(card[1]).den
             /\ card[1].clear = {} => Coverage(card[1]).num = 0
             /\ card[1].clear = Pixels =>
                   Coverage(card[1]).num = 100 * Coverage(card[1]).den
       /\ (card[1].mounted /\ card'[1].mounted) =>
             card[1].clear \subseteq card'[1].clear]_vars

\* A gesture is under way on a covered card that has transparent pixels and
\* rim pixels covered in part
C27_Witness ==
    /\ card[1].mounted
    /\ card[1].isScratching
    /\ ~card[1].revealed
    /\ card[1].clear # {}
    /\ card[1].faded # {}

\* C28: on a revealed card that stays mounted, every step leaves the card
\* revealed and its canvas as it is, and makes none of the effects of
\* onReveal: the session record, the Local Cache and the revealed records
\* stay, no POST is dispatched and no timer is armed; handleScratch at any
\* point returns the canvas unchanged.
C28_RevealedCardInert ==
    [][(card[1].mounted /\ card[1].revealed) =>
          /\ \A x \in Pixels : \A edge \in SUBSET Fringe(x) :
                handleScratch(card[1], x, edge) = card[1]
          /\ card'[1].mounted =>
                /\ card'[1].revealed
                /\ card'[1].clear = card[1].clear
                /\ card'[1].faded = card[1].faded
                /\ ~RevealTransition(1)
                /\ currentUserRecord'[1] = currentUserRecord[1]
                /\ storage' = storage
                /\ posts' \subseteq posts
                /\ timers'[1] <= timers[1]
                /\ revealedLog' = revealedLog]_vars

\* A new gesture is under way on a card that was revealed in this session,
\* after its POST has left the queue and its timer has fired
C28_Witness ==
    /\ card[1].mounted
    /\ card[1].revealed
    /\ card[1].isScratching
    /\ outcome[1].kind = "Fresh"
    /\ posts = {}
    /\ timers[1] = 0

\* A movement sample on the card of session s: the canvas changes within a
\* gesture
MovementSample(s) ==
    /\ card[s].mounted
    /\ card[s].isScratching
    /\ card'[s].mounted
    /\ card'[s].isScratching
    /\ <<card'[s].clear, card'[s].faded>> # <<card[s].clear, card[s].faded>>

\* C29: a movement sample never acts on the coverage: whatever share of the
\* pixels it leaves transparent, the card is not revealed by it, and the
\* session record, the Local Cache, the POSTs and the timers stay as they
\* are; only the end of the gesture reveals.
C29_NoMeasureOnMove ==
    [][MovementSample(1) =>
          /\ card'[1].revealed = card[1].revealed
          /\ card[1].clear \subseteq card'[1].clear
          /\ ~RevealTransition(1)
          /\ currentUserRecord' = currentUserRecord
          /\ storage' = storage
          /\ posts' = posts
          /\ timers' = timers]_vars

\* Within a gesture more than 40 percent of a covered card is transparent
C29_Witness ==
    /\ card[1].mounted
    /\ card[1].isScratching
    /\ ~card[1].revealed
    /\ OverThreshold(card[1].clear)


\* A record whose prize is a number and whose flags are booleans
SafeRecord(r) ==
    /\ r.prize # JNull
    /\ ~isNaN(r.prize)
    /\ r.isScratched \in BOOLEAN
    /\ r.isClaimed \in BOOLEAN

\* C31: every record read from the ledger has a numeric prize, 0 where the
\* cell holds no number, and boolean flags, false where the cell is empty;
\* so the record a login settles on and every record of the Local Cache
\* after it have a numeric prize and boolean flags.
C31_RowsDefaultedSafely ==
    [][FetchSettles(1) =>
          /\ \A i \in 1..Len(sheet) :
                HasUsername(sheet[i]) =>
                   LET r == RowRecord(sheet[i])
                   IN  /\ SafeRecord(r)
                       /\ isNaN(Number(sheet[i].prize)) => r.prize = 0
                       /\ sheet[i].sStr = "" => ~r.isScratched
                       /\ sheet[i].cStr = "" => ~r.isClaimed
          /\ currentUserRecord'[1] # NULL =>
                /\ SafeRecord(currentUserRecord'[1])
                /\ \A r \in Range(loadAllRecords(storage'[1])) : SafeRecord(r)]_vars


C33_ModalOnlyWhenScratched ==
    \A s \in Sessions :
        (showResultModal[s] /\ currentUserRecord[s] # NULL) =>
            currentUserRecord[s].isScratched


\* The records the Local Cache of session s holds under the key of record r:
\* its lowercased username and its date
CachedUnder(s, r) ==
    {q \in Range(loadAllRecords(storage[s])) :
        toLowerCase(q.username) = toLowerCase(r.username) /\ q.date = r.date}

\* C34: a session in the GAME view has a session record, and the Local Cache
\* holds under that record's lowercased username and date exactly that
\* record; so it does after every login, Fresh creation and reveal.
C34_SessionRecordIsCached ==
    \A s \in Sessions :
        view[s] = "GAME" =>
            /\ currentUserRecord[s] # NULL
            /\ CachedUnder(s, currentUserRecord[s]) = {currentUserRecord[s]}

\* A revealed session record, with the record of an earlier day still cached
C34_Witness ==
    /\ view[1] = "GAME"
    /\ currentUserRecord[1].isScratched
    /\ card[1].revealed
    /\ Len(loadAllRecords(storage[1])) = 2


\* The login form of session s is submitted with a username or agent code
\* that is blank after trimming: the fields or the message change on the
\* login view while no login is pending, and a field is left blank
BlankSubmit(s) ==
    /\ view[s] = "LOGIN"
    /\ ~LoginPending(s)
    /\ trim(username'[s]) = "" \/ trim(agent'[s]) = ""
    /\ <<username'[s], agent'[s], errorMsg'[s], login'[s]>> #
          <<username[s], agent[s], errorMsg[s], login[s]>>

\* C35: a login submitted with a blank username or agent code sets the error
\* message and nothing else: no login becomes pending (no IP lookup, no
\* fetch), isVerifying stays false, the view stays LOGIN, and the session
\* record, the resolved address, the Local Cache, the ledger, the POSTs, the
\* timers and the card stay as they are.
C35_BlankLoginRejected ==
    [][\A s \in Sessions :
          BlankSubmit(s) =>
             /\ errorMsg'[s] = "missing"
             /\ ~isVerifying[s]
             /\ ~isVerifying'[s]
             /\ login'[s] = Idle
             /\ view'[s] = "LOGIN"
             /\ currentUserRecord'[s] = currentUserRecord[s]
             /\ clientIp' = clientIp
             /\ lastFetch' = lastFetch
             /\ storage' = storage
             /\ sheet' = sheet
             /\ posts' = posts
             /\ timers' = timers
             /\ card' = card
             /\ showResultModal' = showResultModal]_vars

\* A blank username was rejected on a page whose cache holds a record
C35_Witness ==
    /\ view[1] = "LOGIN"
    /\ errorMsg[1] = "missing"
    /\ username[1] = ""
    /\ ~isVerifying[1]
    /\ login[1] = Idle
    /\ currentUserRecord[1] = NULL
    /\ Len(loadAllRecords(storage[1])) = 1


\* C36: every entry of the catalog read from local storage, and so every
\* prize offered to a Fresh creation, is a number above 0; and every refresh
\* stores only such entries.
C36_CatalogPositive ==
    [][\A s \in Sessions :
          /\ \A i \in 1..Len(getPrizeConfig(prizeStore[s])) :
                /\ ~isNaN(getPrizeConfig(prizeStore[s])[i])
                /\ getPrizeConfig(prizeStore[s])[i] > 0
          /\ \A prize \in PrizeChoices(prizeStore[s]) : prize > 0
          /\ SettlesFresh(s) => currentUserRecord'[s].prize > 0]_vars


\* A fetchPrizeConfig call of session s settles
PrizeFetchSettles(s) ==
    /\ prizeFetch'[s] # prizeFetch[s]
    /\ prizeFetch'[s] \subseteq prizeFetch[s]

\* C37: the stored catalog changes only when a fetchPrizeConfig call of the
\* startup effect or of loadPrizes settles, and then only to the non-empty
\* list that was fetched; a call that settles with an empty list or after a
\* failure leaves the stored catalog as it is.
C37_RefreshOnlyNonEmpty ==
    [][\A s \in Sessions :
          /\ prizeStore'[s] # prizeStore[s] =>
                /\ PrizeFetchSettles(s)
                /\ prizeStore'[s].raw = "array"
                /\ Len(prizeStore'[s].items) > 0
          /\ PrizeFetchSettles(s) =>
                \/ prizeStore'[s] = prizeStore[s]
                \/ \E kind \in ResponseKinds, cells \in PrizeSheets :
                      LET p == fetchPrizeConfig(adminConfig[s], kind, cells)
                      IN  /\ Len(p) > 0
                          /\ prizeStore'[s] = savePrizeConfig(p)]_vars

\* No fetchPrizeConfig call is pending on the admin panel, and the catalog a
\* refresh stored is there
C37_Witness ==
    /\ view[1] = "ADMIN"
    /\ prizeFetch[1] = {}
    /\ prizeStore[1] = savePrizeConfig(<<100, 200>>)


\* A draft that is non-empty, without duplicates, and of amounts above 0
SoundDraft(arr) ==
    /\ Len(arr) > 0
    /\ \A i \in 1..Len(arr) : ~isNaN(arr[i]) /\ arr[i] > 0
    /\ \A i \in 1..Len(arr) : \A j \in 1..Len(arr) : arr[i] = arr[j] => i = j

Ascending(arr) == \A i \in 1..(Len(arr) - 1) : arr[i] <= arr[i + 1]

\* C38: in the prize editor of a signed-in admin, where no refresh settles, a
\* sound draft (non-empty, no duplicates,
\* every amount above 0) stays sound whatever is added or deleted; a draft
\* that grows has grown by one amount and is sorted ascending; the draft
\* holds only amounts it held before or the one added; and a draft of one
\* prize does not shrink.
C38_DraftStaysSound ==
    [][(/\ adminPanel[1].isAuthenticated
        /\ adminPanel'[1].isAuthenticated
        /\ prizeFetch' = prizeFetch
        /\ SoundDraft(adminPanel[1].localPrizes)) =>
          /\ SoundDraft(adminPanel'[1].localPrizes)
          /\ Len(adminPanel'[1].localPrizes) > Len(adminPanel[1].localPrizes) =>
                /\ Len(adminPanel'[1].localPrizes) = Len(adminPanel[1].localPrizes) + 1
                /\ Ascending(adminPanel'[1].localPrizes)
                /\ Range(adminPanel[1].localPrizes) \subseteq Range(adminPanel'[1].localPrizes)
          /\ Len(adminPanel'[1].localPrizes) <= Len(adminPanel[1].localPrizes) =>
                Range(adminPanel'[1].localPrizes) \subseteq Range(adminPanel[1].localPrizes)
          /\ Len(adminPanel'[1].localPrizes) = Len(adminPanel[1].localPrizes) =>
                adminPanel'[1].localPrizes = adminPanel[1].localPrizes
          /\ Len(adminPanel[1].localPrizes) = 1 => Len(adminPanel'[1].localPrizes) >= 1]_vars

\* A draft loaded unsorted was edited down to its last prize, which is not
\* one it started with
C38_Witness ==
    /\ view[1] = "ADMIN"
    /\ prizeStore[1] = savePrizeConfig(<<88, 38>>)
    /\ adminPanel[1].localPrizes = <<12>>


\* C39: on a mounted card with no gesture under way, no step changes the
\* canvas: the transparent pixels, the pixels covered in part and so the
\* coverage stay as they are until a gesture starts.
C39_MovesOutsideGestureInert ==
    [][(card[1].mounted /\ ~card[1].isScratching /\ card'[1].mounted) =>
          /\ card'[1].clear = card[1].clear
          /\ card'[1].faded = card[1].faded
          /\ Coverage(card'[1]) = Coverage(card[1])
          /\ card'[1].revealed = card[1].revealed]_vars

\* A gesture has ended on a partly scratched card that is still covered
C39_Witness ==
    /\ card[1].mounted
    /\ ~card[1].isScratching
    /\ ~card[1].revealed
    /\ card[1].clear # {}
    /\ card[1].faded # {}

====
